---- MODULE Spec2Model ----
(***************************************************************************)
(* A model of the gonum/graph search routines: the indexed A* priority     *)
(* queue, AStar, Dijkstra, BellmanFord, Johnson and the D* Lite planner.   *)
(* Weights are integers (every integer the model uses is an exact float64);*)
(* math.Inf(1) is the sentinel Inf with saturating addition.               *)
(* Slices are 1-based sequences: slot i of the model is slot i-1 in Go, so *)
(* the children of slot i are 2i and 2i+1 and its parent is i \div 2.      *)
(***************************************************************************)
EXTENDS Integers, Sequences, FiniteSets, TLC

\* ------------------------------------------------------------------ bounds
NumNodes == 4
\* edges of a graph handed to AStar, and of a graph handed to the others
MaxEdges == 4
MaxEdgesAny == 3
MaxWeight == 2
MaxH == 1

\* math.Inf(1)
Inf == 1000000

Nodes == 1..NumNodes

\* ------------------------------------------------------------ variables
VARIABLES
  g,              \* the caller's graph: [n |-> node ids, w |-> weight of each edge]
  start, goal,    \* the arguments of AStar / Dijkstra
  heuristic,      \* heuristic(n, goal) for every node n
  pc,             \* position of the running call
  openSet,        \* aStarPriorityQueue: [nodes, indexList]
  closedSet,      \* AStar: ids of expanded nodes
  predecessor,    \* id -> id
  nodesExpanded,
  curr,           \* the internalNode popped last
  nbrs,           \* what is left of the range over from(curr)
  costs,          \* Dijkstra: id -> cost
  nodeIDMap,      \* Dijkstra: ids popped so far
  paths,          \* Dijkstra: id -> path (set on return)
  aPath, aCost,   \* AStar's return values
  nodes,          \* BellmanFord: the slice g.Nodes() returned
  pass, idx,      \* BellmanFord: the pass i and the position in nodes
  err, nilMaps,   \* BellmanFord / Johnson: err != nil, and the maps returned are nil
  dummyGraph,     \* Johnson: the mutable copy of g
  jSource,        \* Johnson: the node of the running Dijkstra call
  nodePaths, nodeCosts,  \* Johnson: source id -> what Dijkstra returned for it
  hNil,           \* D* Lite: the argument h of NewDStarLite is nil
  dh,             \* D* Lite: the heuristic, dh[a][b] = h(a, b)
  dS, dLast,      \* D* Lite: ids of d.s and d.last (d.t is goal)
  k_m,
  world,          \* D* Lite: the world graph [n, w]
  nd,             \* D* Lite: id -> the dStarLiteNode [g, rhs, key] of the world
  queue,          \* D* Lite: dStarLiteQueue [nodes, indexOf], nodes holds ids
  panicked,       \* D* Lite: a call has panicked
  calls,          \* D* Lite: Step, MoveTo and UpdateWorld calls made so far
  pathP, pathWeight, pathNil,  \* D* Lite: what Path returned last
  dChanges,       \* D* Lite: the changes UpdateWorld was called with last
  dStepped        \* D* Lite: what Step returned last, "" after any other call

searchVars == <<g, start, goal, heuristic, pc, openSet, closedSet, predecessor,
                nodesExpanded, curr, nbrs, costs, nodeIDMap, paths, aPath, aCost>>

bfVars == <<nodes, pass, idx, err, nilMaps>>

joVars == <<dummyGraph, jSource, nodePaths, nodeCosts>>

dsVars == <<hNil, dh, dS, dLast, k_m, world, nd, queue, panicked, calls,
            pathP, pathWeight, pathNil, dChanges, dStepped>>

\* the state of the routines of package structure and package topo
VARIABLES
  tj,             \* TarjanSCC: the tarjan struct [index, indexTable, lowLink, onStack, stack, sccs]
  tjNodes,        \* TarjanSCC: what is left of the range over g.Nodes()
  tjFrames        \* TarjanSCC: the running strongconnect calls, innermost last

tjVars == <<tj, tjNodes, tjFrames>>

VARIABLES
  dst,            \* Prim: the destination, a concrete.UndirectedGraph
  remainingNodes, \* Prim: the ids not yet removed from the remaining set
  primIter,       \* Prim: iterations of the main loop started so far
  dst2,           \* Kruskal: the destination
  kEdges,         \* Kruskal: what is left of the range over the sorted edges
  ds              \* Kruskal and package topo: the disjoint set [master, parent, rank]

mstVars == <<dst, remainingNodes, primIter, dst2, kEdges, ds>>

VARIABLES
  vo,             \* VertexOrdering: its locals [dv, d, k, s, l, left]
  voOrder,        \* VertexOrdering: the order returned
  voCores         \* VertexOrdering: the cores returned

voVars == <<vo, voOrder, voCores>>

VARIABLES
  tomita,         \* BronKerbosch: the build sets tomitaTanakaTakahashi
  bk,             \* BronKerbosch: the slices appended to the result so far
  bkArrays,       \* BronKerbosch: the arrays behind the slices r
  bkFrames        \* BronKerbosch: the loop of BronKerbosch and, above it, the
                  \* running maximalCliquePivot calls [r, p, x, nu, todo, cur]

bkVars == <<tomita, bk, bkArrays, bkFrames>>

VARIABLES
  dsUnions,       \* package topo: the sets of members that the union calls made
                  \* so far join, each by a chain of calls
  dsCall          \* package topo: the last call on the disjoint set
                  \* [op, n, ret], ret is the id of the node returned

djVars == <<dsUnions, dsCall>>

VARIABLES
  dominators,     \* Dominators, PostDominators: the map dominators
  domPass         \* Dominators, PostDominators: the loops [nlist, todo, somethingChanged]

domVars == <<dominators, domPass>>

stVars == <<tjVars, mstVars, voVars, bkVars, djVars, domVars>>

\* what a routine of package structure or topo leaves alone
exceptTarjan == <<mstVars, voVars, bkVars, djVars, domVars>>
exceptMST == <<tjVars, voVars, bkVars, djVars, domVars>>
exceptVO == <<tjVars, mstVars, bkVars, djVars, domVars>>
exceptBK == <<tjVars, mstVars, voVars, djVars, domVars>>
exceptDisjoint == <<tjVars, dst, remainingNodes, primIter, dst2, kEdges, voVars, bkVars, domVars>>
exceptDominators == <<tjVars, mstVars, voVars, bkVars, djVars>>

vars == <<searchVars, bfVars, joVars, dsVars, stVars>>

\* ------------------------------------------------------------- helpers
Min(a, b) == IF a < b THEN a ELSE b

\* a + b on float64 values where Inf stands for +Inf
Add(a, b) == IF a >= Inf \/ b >= Inf THEN Inf ELSE a + b

EmptyMap == [x \in {} |-> 0]

\* m[k] = v for a Go map m
Put(m, k, v) == [x \in DOMAIN m \cup {k} |-> IF x = k THEN v ELSE m[x]]

\* delete(m, k)
Delete(m, k) == [x \in DOMAIN m \ {k} |-> m[x]]

\* TarjanSCC before the call: the zero tarjan struct
TarjanIdle ==
  /\ tj = [index |-> 0, indexTable |-> EmptyMap, lowLink |-> EmptyMap,
           onStack |-> {}, stack |-> <<>>, sccs |-> <<>>]
  /\ tjNodes = <<>>
  /\ tjFrames = <<>>

\* concrete.NewUndirectedGraph
NewUndirectedGraph == [nodeMap |-> {}, neighbors |-> EmptyMap, maxID |-> 0, freeMap |-> {}]

\* newDisjointSet: master holds the member ids, parent and rank their nodes
newDisjointSet == [master |-> {}, parent |-> EmptyMap, rank |-> EmptyMap]

\* Prim and Kruskal before the call
MSTIdle ==
  /\ dst = NewUndirectedGraph
  /\ remainingNodes = {}
  /\ primIter = 0
  /\ dst2 = NewUndirectedGraph
  /\ kEdges = <<>>
  /\ ds = newDisjointSet

\* VertexOrdering before the call
VOIdle ==
  /\ vo = [dv |-> EmptyMap, d |-> <<>>, k |-> 0, s |-> <<>>, l |-> <<>>, left |-> 0]
  /\ voOrder = <<>>
  /\ voCores = <<>>

\* BronKerbosch before the call, in a build without the pivot option
BKIdle ==
  /\ tomita = FALSE
  /\ bk = <<>>
  /\ bkArrays = <<>>
  /\ bkFrames = <<>>

\* the disjoint set of package topo before any call on it
DisjointIdle ==
  /\ dsUnions = {}
  /\ dsCall = [op |-> "", n |-> 0, ret |-> 0]

\* Dominators and PostDominators before the call
DominatorsIdle ==
  /\ dominators = EmptyMap
  /\ domPass = [nlist |-> <<>>, todo |-> <<>>, somethingChanged |-> FALSE]

\* the routines of package structure and package topo before any call
StructIdle ==
  /\ TarjanIdle
  /\ MSTIdle
  /\ VOIdle
  /\ BKIdle
  /\ DisjointIdle
  /\ DominatorsIdle

\* every order in which a range over the set S can enumerate it
Orders(S) == {s \in [1..Cardinality(S) -> S] : \A i, j \in 1..Cardinality(S) : i # j => s[i] # s[j]}

\* graphs over the node set N whose edges carry weights of W
Slots(N) == {e \in N \X N : e[1] # e[2]}

Graphs(N, S, W, maxE) == UNION {{[n |-> N, w |-> f] : f \in [E -> W]} :
                                E \in {T \in SUBSET S : Cardinality(T) <= maxE}}

\* g.From(u)
From(G, u) == {v \in G.n : <<u, v>> \in DOMAIN G.w}

\* weight(edgeTo(u, v)) for an edge of G
Weight(G, u, v) == G.w[<<u, v>>]

\* -------------------------------------------- aStarPriorityQueue (heap)
EmptyQueue == [nodes |-> <<>>, indexList |-> EmptyMap]

\* the higher f-score first
LessReversed(q, i, j) == q.nodes[i].fscore > q.nodes[j].fscore

Less(q, i, j) == q.nodes[i].fscore < q.nodes[j].fscore

\* the slots are exchanged and indexList is left as it was
SwapNodesOnly(q, i, j) ==
  [nodes |-> [q.nodes EXCEPT ![i] = q.nodes[j], ![j] = q.nodes[i]],
   indexList |-> q.indexList]

Swap(q, i, j) ==
  [nodes |-> [q.nodes EXCEPT ![i] = q.nodes[j], ![j] = q.nodes[i]],
   indexList |-> Put(Put(q.indexList, q.nodes[i].id, j), q.nodes[j].id, i)]

QLen(q) == Len(q.nodes)

QPush(q, x) ==
  [nodes |-> Append(q.nodes, x),
   indexList |-> Put(q.indexList, x.id, Len(q.nodes) + 1)]

QPopLast(q) ==
  [nodes |-> SubSeq(q.nodes, 1, Len(q.nodes) - 1),
   indexList |-> Delete(q.indexList, q.nodes[Len(q.nodes)].id)]

\* container/heap up(j), driven by the queue's Less and Swap
RECURSIVE HeapUp(_, _)
HeapUp(q, j) ==
  LET i == j \div 2 IN
  IF j = 1 \/ ~Less(q, j, i) THEN q ELSE HeapUp(Swap(q, i, j), i)

\* container/heap down(i, n)
RECURSIVE HeapDown(_, _, _)
HeapDown(q, i, n) ==
  LET j1 == 2 * i IN
  IF j1 > n THEN q
  ELSE LET j == IF j1 + 1 <= n /\ Less(q, j1 + 1, j1) THEN j1 + 1 ELSE j1 IN
       IF ~Less(q, j, i) THEN q ELSE HeapDown(Swap(q, i, j), j, n)

\* heap.Push(openSet, x)
HeapPush(q, x) == HeapUp(QPush(q, x), Len(q.nodes) + 1)

\* the queue after heap.Pop(openSet); the popped node is q.nodes[1]
HeapPop(q) ==
  LET n == Len(q.nodes) IN
  QPopLast(HeapDown(IF n > 1 THEN Swap(q, 1, n) ELSE q, 1, n - 1))

\* heap.Fix(pq, i)
HeapFix(q, i) ==
  LET d == HeapDown(q, i, Len(q.nodes)) IN
  IF d # q THEN d ELSE HeapUp(q, i)

\* openSet.Fix(id, newGScore, newFScore)
Fix(q, id, newGScore, newFScore) ==
  IF id \in DOMAIN q.indexList
  THEN LET i == q.indexList[id] IN
       HeapFix([q EXCEPT !.nodes[i].gscore = newGScore, !.nodes[i].fscore = newFScore], i)
  ELSE q

\* openSet.Find(id): whether the id is queued
Exists(q, id) == id \in DOMAIN q.indexList

Find(q, id) == q.nodes[q.indexList[id]]

InternalNode(id, gs, fs) == [id |-> id, gscore |-> gs, fscore |-> fs]

\* rebuildPath: walk the predecessor map back from goal and reverse. A walk
\* that is still going after fuel steps is in a predecessor cycle (the Go
\* loop would not end); the model marks it by a leading 0.
RECURSIVE RebuildBack(_, _, _)
RebuildBack(pred, c, fuel) ==
  IF c \notin DOMAIN pred THEN <<c>>
  ELSE IF fuel = 0 THEN <<0, c>>
  ELSE Append(RebuildBack(pred, pred[c], fuel - 1), c)

rebuildPath(pred, gl) == RebuildBack(pred, gl, NumNodes + 1)

\* --------------------------------------------------- reference distances
SetMin(S) == CHOOSE m \in S : \A x \in S : m <= x

\* least weight of a walk from u to v with at most k edges (Inf: there is none)
RECURSIVE WalkDist(_, _, _, _)
WalkDist(G, u, v, k) ==
  LET here == IF u = v THEN 0 ELSE Inf IN
  IF k = 0 THEN here
  ELSE SetMin({here} \cup {Add(Weight(G, u, x), WalkDist(G, x, v, k - 1)) : x \in From(G, u)})

Dist(G, u, v) == WalkDist(G, u, v, Cardinality(G.n) - 1)

Reachable(G, u, v) == Dist(G, u, v) < Inf

\* IsPath(p, g) for a path of two or more nodes, and the weight along p
IsPath(p, G) == \A i \in 1..(Len(p) - 1) : <<p[i], p[i + 1]>> \in DOMAIN G.w

RECURSIVE PathWeight(_, _)
PathWeight(p, G) ==
  IF Len(p) <= 1 THEN 0
  ELSE Weight(G, p[1], p[2]) + PathWeight(Tail(p), G)

\* a heuristic is admissible if it never exceeds the true weight to the goal
Admissible(h, G, gl) == \A n \in G.n : h[n] <= Dist(G, n, gl)

\* ------------------------------------------------------------ Dijkstra
\* path.go 111-122: set up, costs[source] = 0, push the source
DijkstraCall(G, source) ==
  /\ pc = "d_call"
  /\ openSet' = HeapPush(EmptyQueue, InternalNode(source, 0, 0))
  /\ costs' = Put(EmptyMap, source, 0)
  /\ predecessor' = EmptyMap
  /\ nodeIDMap' = {}
  /\ pc' = "d_loop"
  /\ UNCHANGED <<stVars, g, start, goal, heuristic, closedSet, nodesExpanded, curr, nbrs,
                 paths, aPath, aCost,
                 bfVars, joVars, dsVars>>

\* path.go 124-129: pop a node and start the range over from(node)
DijkstraPop(G) ==
  /\ pc = "d_loop"
  /\ QLen(openSet) # 0
  /\ LET node == openSet.nodes[1] IN
     /\ openSet' = HeapPop(openSet)
     /\ curr' = node
     /\ nodeIDMap' = nodeIDMap \cup {node.id}
     /\ \E o \in Orders(From(G, node.id)) :
          /\ nbrs' = o
          /\ pc' = IF o = <<>> THEN "d_loop" ELSE "d_nbr"
  /\ UNCHANGED <<stVars, g, start, goal, heuristic, closedSet, predecessor, nodesExpanded,
                 costs, paths, aPath, aCost,
                 bfVars, joVars, dsVars>>

\* DijkstraRelax gone wrong: a lower tentative cost is not accepted
DijkstraRelaxNoDecrease(G, st) ==
  LET neighbor == Head(st.nbrs)
      tmpCost == st.costs[st.curr.id] + Weight(G, st.curr.id, neighbor)
  IN IF neighbor \notin DOMAIN st.costs
     THEN [costs |-> Put(st.costs, neighbor, tmpCost),
           predecessor |-> Put(st.predecessor, neighbor, st.curr.id),
           openSet |-> HeapPush(st.openSet, InternalNode(neighbor, tmpCost, tmpCost))]
     ELSE [costs |-> st.costs, predecessor |-> st.predecessor, openSet |-> st.openSet]

\* DijkstraRelax gone wrong: a lower cost is accepted but the predecessor is
\* left as it was
DijkstraRelaxStalePred(G, st) ==
  LET neighbor == Head(st.nbrs)
      tmpCost == st.costs[st.curr.id] + Weight(G, st.curr.id, neighbor)
  IN IF neighbor \notin DOMAIN st.costs
     THEN [costs |-> Put(st.costs, neighbor, tmpCost),
           predecessor |-> Put(st.predecessor, neighbor, st.curr.id),
           openSet |-> HeapPush(st.openSet, InternalNode(neighbor, tmpCost, tmpCost))]
     ELSE IF tmpCost < st.costs[neighbor]
     THEN [costs |-> Put(st.costs, neighbor, tmpCost),
           predecessor |-> st.predecessor,
           openSet |-> Fix(st.openSet, neighbor, tmpCost, tmpCost)]
     ELSE [costs |-> st.costs, predecessor |-> st.predecessor, openSet |-> st.openSet]

\* path.go 130-139: one neighbor of the popped node
DijkstraRelax(G, st) ==
  LET neighbor == Head(st.nbrs)
      tmpCost == st.costs[st.curr.id] + Weight(G, st.curr.id, neighbor)
  IN IF neighbor \notin DOMAIN st.costs
     THEN [costs |-> Put(st.costs, neighbor, tmpCost),
           predecessor |-> Put(st.predecessor, neighbor, st.curr.id),
           openSet |-> HeapPush(st.openSet, InternalNode(neighbor, tmpCost, tmpCost))]
     ELSE IF tmpCost < st.costs[neighbor]
     THEN [costs |-> Put(st.costs, neighbor, tmpCost),
           predecessor |-> Put(st.predecessor, neighbor, st.curr.id),
           openSet |-> Fix(st.openSet, neighbor, tmpCost, tmpCost)]
     ELSE [costs |-> st.costs, predecessor |-> st.predecessor, openSet |-> st.openSet]

DijkstraNeighbor(G) ==
  /\ pc = "d_nbr"
  /\ LET r == DijkstraRelax(G, [nbrs |-> nbrs, costs |-> costs, curr |-> curr,
                                predecessor |-> predecessor, openSet |-> openSet]) IN
     /\ costs' = r.costs
     /\ predecessor' = r.predecessor
     /\ openSet' = r.openSet
  /\ nbrs' = Tail(nbrs)
  /\ pc' = IF Tail(nbrs) = <<>> THEN "d_loop" ELSE "d_nbr"
  /\ UNCHANGED <<stVars, g, start, goal, heuristic, closedSet, nodesExpanded, curr,
                 nodeIDMap, paths, aPath, aCost,
                 bfVars, joVars, dsVars>>

\* path.go 143-147: the open set is empty, rebuild a path for every cost
DijkstraPaths(cs, pred, idMap) ==
  [id \in DOMAIN cs |-> IF id \in idMap THEN rebuildPath(pred, id) ELSE <<0>>]

DijkstraReturn ==
  /\ pc = "d_loop"
  /\ QLen(openSet) = 0
  /\ paths' = DijkstraPaths(costs, predecessor, nodeIDMap)
  /\ pc' = "d_done"
  /\ UNCHANGED <<stVars, g, start, goal, heuristic, openSet, closedSet, predecessor,
                 nodesExpanded, curr, nbrs, costs, nodeIDMap, aPath, aCost,
                 bfVars, joVars, dsVars>>

\* --------------------------------------------------------------- AStar
\* path.go 49-54, called once Dijkstra has returned the reference costs
\* (path_test.go 135-139)
AStarCall(G) ==
  /\ pc = "d_done"
  /\ closedSet' = {}
  /\ openSet' = HeapPush(EmptyQueue, InternalNode(start, 0, heuristic[start]))
  /\ predecessor' = EmptyMap
  /\ nodesExpanded' = 0
  /\ pc' = "a_loop"
  /\ UNCHANGED <<stVars, g, start, goal, heuristic, curr, nbrs, costs, nodeIDMap, paths,
                 aPath, aCost,
                 bfVars, joVars, dsVars>>

\* path.go 56-67: pop; return at the goal, else close the node and range
\* over its successors
AStarPop(G) ==
  /\ pc = "a_loop"
  /\ QLen(openSet) # 0
  /\ LET c == openSet.nodes[1] IN
     /\ openSet' = HeapPop(openSet)
     /\ curr' = c
     /\ nodesExpanded' = nodesExpanded + 1
     /\ IF c.id = goal
        THEN /\ aPath' = rebuildPath(predecessor, goal)
             /\ aCost' = c.gscore
             /\ pc' = "a_done"
             /\ UNCHANGED <<closedSet, nbrs>>
        ELSE /\ closedSet' = closedSet \cup {c.id}
             /\ \E o \in Orders(From(G, c.id)) :
                  /\ nbrs' = o
                  /\ pc' = IF o = <<>> THEN "a_loop" ELSE "a_nbr"
             /\ UNCHANGED <<aPath, aCost>>
  /\ UNCHANGED <<stVars, g, start, goal, heuristic, predecessor, costs, nodeIDMap, paths,
                 bfVars, joVars, dsVars>>

\* AStarRelax gone wrong: a better g-score is stored but the predecessor is
\* left as it was
AStarRelaxStalePred(G, st) ==
  LET neighbor == Head(st.nbrs)
      gs == st.curr.gscore + Weight(G, st.curr.id, neighbor)
  IN IF neighbor \in st.closedSet
     THEN [predecessor |-> st.predecessor, openSet |-> st.openSet]
     ELSE IF ~Exists(st.openSet, neighbor)
     THEN [predecessor |-> Put(st.predecessor, neighbor, st.curr.id),
           openSet |-> HeapPush(st.openSet, InternalNode(neighbor, gs, gs + st.heuristic[neighbor]))]
     ELSE IF gs < Find(st.openSet, neighbor).gscore
     THEN [predecessor |-> st.predecessor,
           openSet |-> Fix(st.openSet, neighbor, gs, gs + st.heuristic[neighbor])]
     ELSE [predecessor |-> st.predecessor, openSet |-> st.openSet]

\* path.go 68-81: one successor of the popped node
AStarRelax(G, st) ==
  LET neighbor == Head(st.nbrs)
      gs == st.curr.gscore + Weight(G, st.curr.id, neighbor)
  IN IF neighbor \in st.closedSet
     THEN [predecessor |-> st.predecessor, openSet |-> st.openSet]
     ELSE IF ~Exists(st.openSet, neighbor)
     THEN [predecessor |-> Put(st.predecessor, neighbor, st.curr.id),
           openSet |-> HeapPush(st.openSet, InternalNode(neighbor, gs, gs + st.heuristic[neighbor]))]
     ELSE IF gs < Find(st.openSet, neighbor).gscore
     THEN [predecessor |-> Put(st.predecessor, neighbor, st.curr.id),
           openSet |-> Fix(st.openSet, neighbor, gs, gs + st.heuristic[neighbor])]
     ELSE [predecessor |-> st.predecessor, openSet |-> st.openSet]

AStarNeighbor(G) ==
  /\ pc = "a_nbr"
  /\ LET r == AStarRelax(G, [nbrs |-> nbrs, curr |-> curr, closedSet |-> closedSet,
                             predecessor |-> predecessor, openSet |-> openSet,
                             heuristic |-> heuristic]) IN
     /\ predecessor' = r.predecessor
     /\ openSet' = r.openSet
  /\ nbrs' = Tail(nbrs)
  /\ pc' = IF Tail(nbrs) = <<>> THEN "a_loop" ELSE "a_nbr"
  /\ UNCHANGED <<stVars, g, start, goal, heuristic, closedSet, nodesExpanded, curr, costs,
                 nodeIDMap, paths, aPath, aCost,
                 bfVars, joVars, dsVars>>

\* path.go 85: the open set ran empty before the goal was popped
AStarFail ==
  /\ pc = "a_loop"
  /\ QLen(openSet) = 0
  /\ aPath' = <<>>
  /\ aCost' = 0
  /\ pc' = "a_done"
  /\ UNCHANGED <<stVars, g, start, goal, heuristic, openSet, closedSet, predecessor,
                 nodesExpanded, curr, nbrs, costs, nodeIDMap, paths,
                 bfVars, joVars, dsVars>>

\* ------------------------------------------- specification: the searches
NoNode == [id |-> 0, gscore |-> 0, fscore |-> 0]

\* The graphs AStar is run on: edges into the start and out of the goal are
\* left out (AStar closes the start at its first pop and never expands the
\* goal, so it follows neither).
AStarSlots == {e \in Slots(Nodes) : e[2] # 1 /\ e[1] # NumNodes}

\* the heuristics drawn: admissible, and 0 where the goal cannot be reached
Heuristics(G, gl) ==
  {h \in [G.n -> 0..MaxH] :
     \A n \in G.n : h[n] <= (IF Reachable(G, n, gl) THEN Dist(G, n, gl) ELSE 0)}

InitSearch ==
  /\ g \in Graphs(Nodes, AStarSlots, 0..MaxWeight, MaxEdges)
  /\ start = 1
  /\ goal = NumNodes
  /\ heuristic \in Heuristics(g, goal)
  /\ pc = "d_call"
  /\ openSet = EmptyQueue
  /\ closedSet = {}
  /\ predecessor = EmptyMap
  /\ nodesExpanded = 0
  /\ curr = NoNode
  /\ nbrs = <<>>
  /\ costs = EmptyMap
  /\ nodeIDMap = {}
  /\ paths = EmptyMap
  /\ aPath = <<>>
  /\ aCost = 0
  /\ nodes = <<>>
  /\ pass = 0
  /\ idx = 0
  /\ err = FALSE
  /\ nilMaps = FALSE
  /\ dummyGraph = [n |-> {}, w |-> EmptyMap]
  /\ jSource = 0
  /\ nodePaths = EmptyMap
  /\ nodeCosts = EmptyMap
  /\ hNil = FALSE
  /\ dh = EmptyMap
  /\ dS = 0
  /\ dLast = 0
  /\ k_m = 0
  /\ world = [n |-> {}, w |-> EmptyMap]
  /\ nd = EmptyMap
  /\ queue = [nodes |-> <<>>, indexOf |-> EmptyMap]
  /\ panicked = FALSE
  /\ calls = 0
  /\ pathP = <<>>
  /\ pathWeight = 0
  /\ pathNil = FALSE
  /\ dChanges = <<>>
  /\ dStepped = ""
  /\ StructIdle

NextSearch ==
  \/ DijkstraCall(g, start)
  \/ DijkstraPop(g)
  \/ DijkstraNeighbor(g)
  \/ DijkstraReturn
  \/ AStarCall(g)
  \/ AStarPop(g)
  \/ AStarNeighbor(g)
  \/ AStarFail

SpecSearch == InitSearch /\ [][NextSearch]_vars

\* ------------------------------------------ specification: Dijkstra alone
InitDijkstra ==
  /\ g \in Graphs(Nodes, Slots(Nodes), 0..MaxWeight, MaxEdgesAny)
  /\ start = 1
  /\ goal = 1
  /\ heuristic = [n \in Nodes |-> 0]
  /\ pc = "d_call"
  /\ openSet = EmptyQueue
  /\ closedSet = {}
  /\ predecessor = EmptyMap
  /\ nodesExpanded = 0
  /\ curr = NoNode
  /\ nbrs = <<>>
  /\ costs = EmptyMap
  /\ nodeIDMap = {}
  /\ paths = EmptyMap
  /\ aPath = <<>>
  /\ aCost = 0
  /\ nodes = <<>>
  /\ pass = 0
  /\ idx = 0
  /\ err = FALSE
  /\ nilMaps = FALSE
  /\ dummyGraph = [n |-> {}, w |-> EmptyMap]
  /\ jSource = 0
  /\ nodePaths = EmptyMap
  /\ nodeCosts = EmptyMap
  /\ hNil = FALSE
  /\ dh = EmptyMap
  /\ dS = 0
  /\ dLast = 0
  /\ k_m = 0
  /\ world = [n |-> {}, w |-> EmptyMap]
  /\ nd = EmptyMap
  /\ queue = [nodes |-> <<>>, indexOf |-> EmptyMap]
  /\ panicked = FALSE
  /\ calls = 0
  /\ pathP = <<>>
  /\ pathWeight = 0
  /\ pathNil = FALSE
  /\ dChanges = <<>>
  /\ dStepped = ""
  /\ StructIdle

NextDijkstra ==
  \/ DijkstraCall(g, start)
  \/ DijkstraPop(g)
  \/ DijkstraNeighbor(g)
  \/ DijkstraReturn

SpecDijkstra == InitDijkstra /\ [][NextDijkstra]_vars

\* ------------------------------------------------------ claims: searches
\* a path from a to b along edges of G
PathFromTo(p, G, a, b) == Len(p) >= 1 /\ p[1] = a /\ p[Len(p)] = b /\ IsPath(p, G)

\* C1: for non-negative weights, an admissible heuristic and a goal reachable
\* from start, the cost AStar returns equals the cost Dijkstra reports for
\* the goal.
C1_AStarCostIsDijkstraCost ==
  (pc = "a_done" /\ Reachable(g, start, goal) /\ Admissible(heuristic, g, goal))
    => (goal \in DOMAIN costs /\ aCost = costs[goal])

\* C7: Dijkstra's costs map has exactly the nodes reachable from the source
\* as keys, the same keys as paths, and costs[v] is the least weight of a
\* path from the source to v.
C7_DijkstraCosts ==
  pc = "d_done" =>
    /\ DOMAIN costs = {v \in g.n : Reachable(g, start, v)}
    /\ DOMAIN paths = DOMAIN costs
    /\ \A v \in DOMAIN costs : costs[v] = Dist(g, start, v)

\* a run in which a node is unreachable and another had its first cost lowered
C7_Witness ==
  /\ pc = "d_done"
  /\ DOMAIN costs # g.n
  /\ \E v \in DOMAIN predecessor :
       <<start, v>> \in DOMAIN g.w /\ costs[v] < Weight(g, start, v)

\* C8: every path Dijkstra returns starts at the source, ends at its key,
\* follows edges of g, and weighs what costs reports for the key.
C8_DijkstraPaths ==
  pc = "d_done" =>
    \A id \in DOMAIN paths :
      /\ PathFromTo(paths[id], g, start, id)
      /\ PathWeight(paths[id], g) = costs[id]

\* a returned path of three nodes whose end was first reached at a higher cost
C8_Witness ==
  /\ pc = "d_done"
  /\ \E id \in DOMAIN paths :
       /\ Len(paths[id]) >= 3
       /\ <<start, id>> \in DOMAIN g.w
       /\ costs[id] < Weight(g, start, id)

\* C9: a non-empty path returned by AStar begins at start, ends at goal,
\* follows edges of g, and the returned cost is the weight along it.
C9_AStarPath ==
  (pc = "a_done" /\ aPath # <<>>) =>
    /\ PathFromTo(aPath, g, start, goal)
    /\ aCost = PathWeight(aPath, g)

\* AStar returned a path of three or more nodes to a goal that has a direct,
\* heavier edge from the start
C9_Witness ==
  /\ pc = "a_done"
  /\ Len(aPath) >= 3
  /\ <<start, goal>> \in DOMAIN g.w
  /\ aCost < Weight(g, start, goal)

\* --------------------------------------------------------- BellmanFord
\* nodes and edges of the graphs handed to BellmanFord
BFNodes == 3
BFMaxEdges == 3

\* costs[id] as an expression: a key the map does not hold reads as 0
CostAt(cs, id) == IF id \in DOMAIN cs THEN cs[id] ELSE 0

\* path.go 180-186: one successor of node in the main loop
BFRelax(G, st, node, succ) ==
  LET dist == CostAt(st.costs, node) + Weight(G, node, succ) IN
  IF dist < CostAt(st.costs, succ)
  THEN [costs |-> Put(st.costs, succ, dist),
        predecessor |-> Put(st.predecessor, succ, node),
        nodeIDMap |-> st.nodeIDMap \cup {succ}]
  ELSE [st EXCEPT !.nodeIDMap = st.nodeIDMap \cup {succ}]

\* path.go 179-187: the range over from(node), in the order succs
RECURSIVE BFRelaxAll(_, _, _, _)
BFRelaxAll(G, st, node, succs) ==
  IF succs = <<>> THEN st
  ELSE BFRelaxAll(G, BFRelax(G, st, node, Head(succs)), node, Tail(succs))

\* BFStillRelaxes gone wrong: an edge into a node without a cost is passed
\* over
BFStillRelaxesKnownOnly(G, cs, node, succ) ==
  /\ succ \in DOMAIN cs
  /\ CostAt(cs, node) + Weight(G, node, succ) < CostAt(cs, succ)

\* path.go 194-195: the test of the scan after the main loop
BFStillRelaxes(G, cs, node, succ) ==
  CostAt(cs, node) + Weight(G, node, succ) < CostAt(cs, succ)

\* path.go 165-175: set up, costs[source] = 0, nodes := g.Nodes()
BFCall(G, source) ==
  /\ pc = "b_call"
  /\ predecessor' = EmptyMap
  /\ costs' = Put(EmptyMap, source, 0)
  /\ nodeIDMap' = {source}
  /\ nodes' \in Orders(G.n)
  /\ pass' = 1
  /\ idx' = 1
  /\ pc' = IF 1 < Cardinality(G.n) - 1 THEN "b_pass" ELSE "b_check"
  /\ UNCHANGED <<stVars, g, start, goal, heuristic, openSet, closedSet, nodesExpanded, curr,
                 nbrs, paths, aPath, aCost, err, nilMaps, joVars, dsVars>>

\* path.go 175-189: one node of one pass of the main loop
BFNode(G) ==
  /\ pc = "b_pass"
  /\ LET node == nodes[idx] IN
     \E succs \in Orders(From(G, node)) :
       LET r == BFRelaxAll(G, [costs |-> costs, predecessor |-> predecessor,
                               nodeIDMap |-> nodeIDMap \cup {node}], node, succs) IN
       /\ costs' = r.costs
       /\ predecessor' = r.predecessor
       /\ nodeIDMap' = r.nodeIDMap
  /\ IF idx < Len(nodes)
     THEN /\ idx' = idx + 1
          /\ UNCHANGED <<pass, pc>>
     ELSE /\ idx' = 1
          /\ pass' = pass + 1
          /\ pc' = IF pass + 1 < Len(nodes) - 1 THEN "b_pass" ELSE "b_check"
  /\ UNCHANGED <<stVars, g, start, goal, heuristic, openSet, closedSet, nodesExpanded, curr,
                 nbrs, paths, aPath, aCost, nodes, err, nilMaps, joVars, dsVars>>

\* path.go 201-204: a path for every key of costs
BFPaths(cs, pred, idMap) ==
  [id \in DOMAIN cs |-> IF id \in idMap THEN rebuildPath(pred, id) ELSE <<0>>]

\* path.go 192-205: the scan for an edge that still relaxes, and the return
BFCheck(G) ==
  /\ pc = "b_check"
  /\ IF \E node \in G.n : \E succ \in From(G, node) : BFStillRelaxes(G, costs, node, succ)
     THEN /\ err' = TRUE
          /\ nilMaps' = TRUE
          /\ paths' = EmptyMap
          /\ costs' = EmptyMap
     ELSE /\ err' = FALSE
          /\ nilMaps' = FALSE
          /\ paths' = BFPaths(costs, predecessor, nodeIDMap)
          /\ UNCHANGED costs
  /\ nodes' = <<>>
  /\ pass' = 0
  /\ idx' = 0
  /\ pc' = "b_done"
  /\ UNCHANGED <<stVars, g, start, goal, heuristic, openSet, closedSet, predecessor,
                 nodesExpanded, curr, nbrs, nodeIDMap, aPath, aCost, joVars, dsVars>>

\* --------------------------------------- specification: BellmanFord alone
InitBF ==
  /\ g \in Graphs(1..BFNodes, Slots(1..BFNodes), (-MaxWeight)..MaxWeight, BFMaxEdges)
  /\ start = 1
  /\ goal = 1
  /\ heuristic = [n \in 1..BFNodes |-> 0]
  /\ pc = "b_call"
  /\ openSet = EmptyQueue
  /\ closedSet = {}
  /\ predecessor = EmptyMap
  /\ nodesExpanded = 0
  /\ curr = NoNode
  /\ nbrs = <<>>
  /\ costs = EmptyMap
  /\ nodeIDMap = {}
  /\ paths = EmptyMap
  /\ aPath = <<>>
  /\ aCost = 0
  /\ nodes = <<>>
  /\ pass = 0
  /\ idx = 0
  /\ err = FALSE
  /\ nilMaps = FALSE
  /\ dummyGraph = [n |-> {}, w |-> EmptyMap]
  /\ jSource = 0
  /\ nodePaths = EmptyMap
  /\ nodeCosts = EmptyMap
  /\ hNil = FALSE
  /\ dh = EmptyMap
  /\ dS = 0
  /\ dLast = 0
  /\ k_m = 0
  /\ world = [n |-> {}, w |-> EmptyMap]
  /\ nd = EmptyMap
  /\ queue = [nodes |-> <<>>, indexOf |-> EmptyMap]
  /\ panicked = FALSE
  /\ calls = 0
  /\ pathP = <<>>
  /\ pathWeight = 0
  /\ pathNil = FALSE
  /\ dChanges = <<>>
  /\ dStepped = ""
  /\ StructIdle

NextBF ==
  \/ BFCall(g, start)
  \/ BFNode(g)
  \/ BFCheck(g)

SpecBF == InitBF /\ [][NextBF]_vars

\* ---------------------------------------------------- claims: BellmanFord
\* a closed walk of negative weight through a node that source reaches
NegCycleThrough(G, v) ==
  \E x \in From(G, v) : Add(Weight(G, v, x), WalkDist(G, x, v, Cardinality(G.n) - 1)) < 0

NegCycleReachable(G, source) ==
  \E v \in G.n : Reachable(G, source, v) /\ NegCycleThrough(G, v)

\* C4: with no negative cycle reachable from the source, costs holds exactly
\* the nodes the source reaches, each with the least weight of a path from
\* the source, and paths has the same keys.
C4_BellmanFordCosts ==
  (pc = "b_done" /\ ~NegCycleReachable(g, start)) =>
    /\ DOMAIN costs = {v \in g.n : Reachable(g, start, v)}
    /\ DOMAIN paths = DOMAIN costs
    /\ \A v \in DOMAIN costs : costs[v] = Dist(g, start, v)

\* C5: BellmanFord reports an error only if a negative cycle is reachable
\* from the source.
C5_BellmanFordNoError ==
  (pc = "b_done" /\ ~NegCycleReachable(g, start)) => ~err

\* C6: whenever a negative cycle is reachable from the source, BellmanFord
\* returns an error and nil maps, whatever the order of nodes and successors.
C6_BellmanFordNegativeCycle ==
  (pc = "b_done" /\ NegCycleReachable(g, start)) => (err /\ nilMaps)

\* BellmanFord returned on a graph with a negative cycle that the source
\* reaches but does not lie on
C6_Witness ==
  /\ pc = "b_done"
  /\ NegCycleReachable(g, start)
  /\ ~NegCycleThrough(g, start)
  /\ err

\* -------------------------------------------------------------- Johnson
\* nodes, edges and largest weight of the graphs handed to Johnson
JNodes == 3
JMaxEdges == 3
JMaxWeight == 1

\* the mutable directed graph Johnson copies g into
NewDirectedGraph == [n |-> {}, w |-> EmptyMap]

SetMax(S) == CHOOSE m \in S : \A x \in S : m >= x

\* NewNode: a node with an id the graph does not use
NewNode(G) == IF G.n = {} THEN 1 ELSE SetMax(G.n) + 1

AddNode(G, n) == [G EXCEPT !.n = G.n \cup {n}]

\* AddDirectedEdge(e, c): the edge is set to weight c, both ends are nodes
AddDirectedEdge(G, u, v, c) == [n |-> G.n \cup {u, v}, w |-> Put(G.w, <<u, v>>, c)]

\* RemoveNode: the node goes, with every edge into and out of it
RemoveNode(G, n) ==
  [n |-> G.n \ {n},
   w |-> [e \in {x \in DOMAIN G.w : x[1] # n /\ x[2] # n} |-> G.w[e]]]

\* a loop of AddDirectedEdge calls over the set E of edges; weightOf gives
\* the weight each is added with
RECURSIVE AddEdges(_, _, _)
AddEdges(G, E, weightOf) ==
  IF E = {} THEN G
  ELSE LET e == CHOOSE x \in E : TRUE IN
       AddEdges(AddDirectedEdge(G, e[1], e[2], weightOf[e]), E \ {e}, weightOf)

RECURSIVE AddNodes(_, _)
AddNodes(G, N) ==
  IF N = {} THEN G
  ELSE LET x == CHOOSE y \in N : TRUE IN AddNodes(AddNode(G, x), N \ {x})

\* path.go 229-248: copy g into the mutable graph
JohnsonCopy(G) == AddEdges(AddNodes(NewDirectedGraph, G.n), DOMAIN G.w, G.w)

\* path.go 250-255: a dummy node with an edge of weight 0 to every node of g
JohnsonDummy(D, G) ==
  LET dummyNode == NewNode(D) IN
  AddEdges(AddNode(D, dummyNode), {<<dummyNode, x>> : x \in G.n},
           [e \in {<<dummyNode, x>> : x \in G.n} |-> 0])

\* JohnsonWeight gone wrong: the two costs change places
JohnsonWeightSwapped(w, cs, node, succ) == w + CostAt(cs, succ) - CostAt(cs, node)

\* path.go 267: the new weight of the edge from node to succ
JohnsonWeight(w, cs, node, succ) == w + CostAt(cs, node) - CostAt(cs, succ)

\* path.go 263-269: reweight every edge of g in the copy
JohnsonReweighted(D, G, cs) ==
  AddEdges(D, DOMAIN G.w, [e \in DOMAIN G.w |-> JohnsonWeight(G.w[e], cs, e[1], e[2])])

\* path.go 226-255: copy, add the dummy node, hand over to BellmanFord (258)
JohnsonCall ==
  /\ pc = "j_call"
  /\ dummyGraph' = JohnsonDummy(JohnsonCopy(g), g)
  /\ jSource' = NewNode(JohnsonCopy(g))
  /\ pc' = "b_call"
  /\ UNCHANGED <<stVars, g, start, goal, heuristic, openSet, closedSet, predecessor,
                 nodesExpanded, curr, nbrs, costs, nodeIDMap, paths, aPath, aCost,
                 bfVars, nodePaths, nodeCosts, dsVars>>

\* path.go 258-261: BellmanFord reported an error, Johnson returns it
JohnsonAbort ==
  /\ pc = "b_done"
  /\ err
  /\ nodePaths' = EmptyMap
  /\ nodeCosts' = EmptyMap
  /\ pc' = "j_done"
  /\ UNCHANGED <<stVars, g, start, goal, heuristic, openSet, closedSet, predecessor,
                 nodesExpanded, curr, nbrs, costs, nodeIDMap, paths, aPath, aCost,
                 bfVars, dummyGraph, jSource, dsVars>>

\* path.go 263-275: reweight, remove the dummy node, make the result maps
JohnsonReweight ==
  /\ pc = "b_done"
  /\ ~err
  /\ dummyGraph' = RemoveNode(JohnsonReweighted(dummyGraph, g, costs), jSource)
  /\ nodePaths' = EmptyMap
  /\ nodeCosts' = EmptyMap
  /\ pc' = "j_next"
  /\ UNCHANGED <<stVars, g, start, goal, heuristic, openSet, closedSet, predecessor,
                 nodesExpanded, curr, nbrs, costs, nodeIDMap, paths, aPath, aCost,
                 bfVars, jSource, dsVars>>

\* path.go 277-278: the range over g.Nodes() reaches a node not yet visited
\* and calls Dijkstra with it
JohnsonNext ==
  /\ pc = "j_next"
  /\ \E node \in g.n \ DOMAIN nodeCosts :
       jSource' = node
  /\ pc' = "d_call"
  /\ UNCHANGED <<stVars, g, start, goal, heuristic, openSet, closedSet, predecessor,
                 nodesExpanded, curr, nbrs, costs, nodeIDMap, paths, aPath, aCost,
                 bfVars, dummyGraph, nodePaths, nodeCosts, dsVars>>

\* path.go 278: Dijkstra returned, its maps are stored under the node
JohnsonCollect ==
  /\ pc = "d_done"
  /\ nodePaths' = Put(nodePaths, jSource, paths)
  /\ nodeCosts' = Put(nodeCosts, jSource, costs)
  /\ pc' = "j_next"
  /\ UNCHANGED <<stVars, g, start, goal, heuristic, openSet, closedSet, predecessor,
                 nodesExpanded, curr, nbrs, costs, nodeIDMap, paths, aPath, aCost,
                 bfVars, dummyGraph, jSource, dsVars>>

\* path.go 281: every node has been visited
JohnsonReturn ==
  /\ pc = "j_next"
  /\ g.n \ DOMAIN nodeCosts = {}
  /\ pc' = "j_done"
  /\ UNCHANGED <<stVars, g, start, goal, heuristic, openSet, closedSet, predecessor,
                 nodesExpanded, curr, nbrs, costs, nodeIDMap, paths, aPath, aCost,
                 bfVars, joVars, dsVars>>

\* ------------------------------------------------ specification: Johnson
InitJohnson ==
  /\ g \in Graphs(1..JNodes, Slots(1..JNodes), (-JMaxWeight)..JMaxWeight, JMaxEdges)
  /\ start = 1
  /\ goal = 1
  /\ heuristic = [n \in 1..JNodes |-> 0]
  /\ pc = "j_call"
  /\ openSet = EmptyQueue
  /\ closedSet = {}
  /\ predecessor = EmptyMap
  /\ nodesExpanded = 0
  /\ curr = NoNode
  /\ nbrs = <<>>
  /\ costs = EmptyMap
  /\ nodeIDMap = {}
  /\ paths = EmptyMap
  /\ aPath = <<>>
  /\ aCost = 0
  /\ nodes = <<>>
  /\ pass = 0
  /\ idx = 0
  /\ err = FALSE
  /\ nilMaps = FALSE
  /\ dummyGraph = [n |-> {}, w |-> EmptyMap]
  /\ jSource = 0
  /\ nodePaths = EmptyMap
  /\ nodeCosts = EmptyMap
  /\ hNil = FALSE
  /\ dh = EmptyMap
  /\ dS = 0
  /\ dLast = 0
  /\ k_m = 0
  /\ world = [n |-> {}, w |-> EmptyMap]
  /\ nd = EmptyMap
  /\ queue = [nodes |-> <<>>, indexOf |-> EmptyMap]
  /\ panicked = FALSE
  /\ calls = 0
  /\ pathP = <<>>
  /\ pathWeight = 0
  /\ pathNil = FALSE
  /\ dChanges = <<>>
  /\ dStepped = ""
  /\ StructIdle

NextJohnson ==
  \/ JohnsonCall
  \/ BFCall(dummyGraph, jSource)
  \/ BFNode(dummyGraph)
  \/ BFCheck(dummyGraph)
  \/ JohnsonAbort
  \/ JohnsonReweight
  \/ JohnsonNext
  \/ DijkstraCall(dummyGraph, jSource)
  \/ DijkstraPop(dummyGraph)
  \/ DijkstraNeighbor(dummyGraph)
  \/ DijkstraReturn
  \/ JohnsonCollect
  \/ JohnsonReturn

SpecJohnson == InitJohnson /\ [][NextJohnson]_vars

\* -------------------------------------------------------- claims: Johnson
NoNegCycle(G) == \A v \in G.n : ~NegCycleThrough(G, v)

\* h(x): the least weight of a path from the dummy node to x
DummyDist(G, x) == SetMin({Dist(G, u, x) : u \in G.n})

DNodes == 3
DMaxEdges == 3
MaxCalls == 2
MaxPathLen == 4

\* world.To(u)
To(G, u) == {v \in G.n : <<v, u>> \in DOMAIN G.w}

\* d.weight: the Weight method of the graph g handed to NewDStarLite
\* (dstarlite.go 74-78); an edge g does not have weighs +Inf (graph.go 100)
DWeight(a, b) == IF <<a, b>> \in DOMAIN g.w THEN g.w[<<a, b>>] ELSE Inf

\* key.less
KeyLess(k, other) == k[1] < other[1] \/ (k[1] = other[1] /\ k[2] < other[2])

DStarLiteNode(rhsv, gv) == [key |-> <<0, 0>>, rhs |-> rhsv, g |-> gv]

\* dStarLiteQueue.Less and Swap
QueueLess(P, i, j) == KeyLess(P.nd[P.q.nodes[i]].key, P.nd[P.q.nodes[j]].key)

QueueSwap(P, i, j) ==
  [P EXCEPT !.q = [nodes |-> [P.q.nodes EXCEPT ![i] = P.q.nodes[j], ![j] = P.q.nodes[i]],
                   indexOf |-> Put(Put(P.q.indexOf, P.q.nodes[i], j), P.q.nodes[j], i)]]

\* dStarLiteQueue.Push and Pop
QueuePush(P, u) ==
  [P EXCEPT !.q = [nodes |-> Append(P.q.nodes, u),
                   indexOf |-> Put(P.q.indexOf, u, Len(P.q.nodes) + 1)]]

QueuePop(P) ==
  [P EXCEPT !.q = [nodes |-> SubSeq(P.q.nodes, 1, Len(P.q.nodes) - 1),
                   indexOf |-> Delete(P.q.indexOf, P.q.nodes[Len(P.q.nodes)])]]

\* container/heap up and down over the queue
RECURSIVE QueueUp(_, _)
QueueUp(P, j) ==
  LET i == j \div 2 IN
  IF j = 1 \/ ~QueueLess(P, j, i) THEN P ELSE QueueUp(QueueSwap(P, i, j), i)

RECURSIVE QueueDown(_, _, _)
QueueDown(P, i, n) ==
  LET j1 == 2 * i IN
  IF j1 > n THEN P
  ELSE LET j == IF j1 + 1 <= n /\ QueueLess(P, j1 + 1, j1) THEN j1 + 1 ELSE j1 IN
       IF ~QueueLess(P, j, i) THEN P ELSE QueueDown(QueueSwap(P, i, j), j, n)

\* heap.Fix(q, i) and heap.Remove(q, i)
QueueFix(P, i) ==
  LET d == QueueDown(P, i, Len(P.q.nodes)) IN
  IF d # P THEN d ELSE QueueUp(P, i)

QueueRemove(P, i) ==
  LET n == Len(P.q.nodes) IN
  IF n = i THEN QueuePop(P)
  ELSE LET sw == QueueSwap(P, i, n)
           d == QueueDown(sw, i, n - 1)
       IN QueuePop(IF d # sw THEN d ELSE QueueUp(sw, i))

\* has, top
has(P, id) == id \in DOMAIN P.q.indexOf

top(P) == P.q.nodes[1]

\* dstarlite.go 431-433: insert pushes u; k is not used
insert(P, u, k) == QueueUp(QueuePush(P, u), Len(P.q.nodes) + 1)

\* dstarlite.go 436-443: queue update
queueUpdate(P, id, k) ==
  IF ~has(P, id) THEN P
  ELSE QueueFix([P EXCEPT !.nd[id].key = k], P.q.indexOf[id])

\* dstarlite.go 446-452: queue remove
remove(P, id) == IF ~has(P, id) THEN P ELSE QueueRemove(P, P.q.indexOf[id])

\* dstarlite.go 120-128
keyFor(P, id) ==
  LET k2 == Min(P.nd[id].g, P.nd[id].rhs) IN
  <<Add(Add(k2, dh[P.s][id]), P.km), k2>>

\* UpdateVertex that does not queue a node that has become inconsistent
updateWithoutInsert(P, u) ==
  IF has(P, u) /\ P.nd[u].g # P.nd[u].rhs THEN queueUpdate(P, u, keyFor(P, u))
  ELSE IF has(P, u) /\ P.nd[u].g = P.nd[u].rhs THEN remove(P, u)
  ELSE P

\* dstarlite.go 131-148: UpdateVertex
update(P, u) ==
  IF has(P, u) /\ P.nd[u].g # P.nd[u].rhs THEN queueUpdate(P, u, keyFor(P, u))
  ELSE IF ~has(P, u) /\ P.nd[u].g # P.nd[u].rhs THEN insert(P, u, keyFor(P, u))
  ELSE IF has(P, u) /\ P.nd[u].g = P.nd[u].rhs THEN remove(P, u)
  ELSE P

\* dstarlite.go 199-202 and 289-292: rhs(s) is set to +Inf and recomputed
\* over world.From(s); the first successor read panics, a *dStarLiteNode
\* asserted to be a dStarLiteNode
recomputeRhs(P, s) ==
  [P EXCEPT !.nd[s].rhs = Inf, !.panicked = (From(P.world, s) # {})]

\* dstarlite.go 185-191: the predecessors of an overconsistent u, in order
\* (CHOOSE R \in {f(Q) : Q \in {e}} : TRUE is f(e) with e evaluated once)
RECURSIVE lowerPreds(_, _, _)
lowerPreds(P, u, preds) ==
  IF preds = <<>> THEN P
  ELSE LET s == Head(preds)
           P1 == IF s # goal
                 THEN [P EXCEPT !.nd[s].rhs = Min(@, Add(DWeight(s, u), P.nd[u].g))]
                 ELSE P
       IN CHOOSE R \in {lowerPreds(Q, u, Tail(preds)) : Q \in {update(P1, s)}} : TRUE

\* dstarlite.go 195-206: the predecessors of an underconsistent u, and u
RECURSIVE raisePreds(_, _, _, _)
raisePreds(P, u, gOld, preds) ==
  IF preds = <<>> \/ P.panicked THEN P
  ELSE LET s == Head(preds)
           P1 == IF P.nd[s].rhs = Add(DWeight(s, u), gOld) /\ s # goal
                 THEN recomputeRhs(P, s)
                 ELSE P
       IN CHOOSE R \in {IF Q.panicked THEN Q ELSE raisePreds(update(Q, s), u, gOld, Tail(preds)) :
                         Q \in {P1}} : TRUE

\* dstarlite.go 174-178: the loop of findShortestPath is left
findShortestPathDone(P) ==
  IF Len(P.q.nodes) = 0 THEN TRUE
  ELSE /\ ~KeyLess(P.nd[top(P)].key, keyFor(P, P.s))
       /\ P.nd[P.s].rhs <= P.nd[P.s].g

\* dstarlite.go 175-207: one iteration, preds is world.To(u) in its order
findShortestPathIter(P, preds) ==
  LET u == top(P)
      kNew == keyFor(P, u)
  IN IF KeyLess(P.nd[u].key, kNew) THEN queueUpdate(P, u, kNew)
     ELSE IF P.nd[u].g > P.nd[u].rhs
     THEN CHOOSE R \in {lowerPreds(Q, u, preds) :
                         Q \in {remove([P EXCEPT !.nd[u].g = P.nd[u].rhs], u)}} : TRUE
     ELSE raisePreds([P EXCEPT !.nd[u].g = Inf], u, P.nd[u].g, Append(preds, u))

\* dstarlite.go 245-249
moveTo(P, n) == [P EXCEPT !.last = P.s, !.s = n, !.km = Add(P.km, dh[P.s][n])]

\* a Step that moves to the first successor world.From(d.s) yields
RECURSIVE stepNextFirst(_, _, _, _)
stepNextFirst(P, succs, min, next) ==
  IF succs = <<>> THEN next ELSE Head(succs)

\* dstarlite.go 229-238: the successor Step picks when world.From(d.s)
\* comes in the order succs; 0 stands for a nil next
RECURSIVE stepNext(_, _, _, _)
stepNext(P, succs, min, next) ==
  IF succs = <<>> THEN next
  ELSE LET v == Head(succs)
           w == Add(DWeight(P.s, v), P.nd[v].g)
       IN IF w < min THEN stepNext(P, Tail(succs), w, v)
          ELSE stepNext(P, Tail(succs), min, next)

\* one element of changes, taken whatever the sign of its cost
updateEdgeAnyCost(P, e) ==
  LET cOld == DWeight(e.u, e.v)
      P0 == [P EXCEPT !.world = [n |-> P.world.n \cup {e.u, e.v},
                                 w |-> Put(P.world.w, <<e.u, e.v>>, e.cost)]]
      P1 == IF cOld > e.cost
            THEN IF e.u # goal
                 THEN [P0 EXCEPT !.nd[e.u].rhs = Min(@, Add(e.cost, P0.nd[e.v].g))]
                 ELSE P0
            ELSE IF P0.nd[e.u].rhs = Add(cOld, P0.nd[e.v].g) /\ e.u # goal
                 THEN recomputeRhs(P0, e.u)
                 ELSE P0
  IN IF P1.panicked THEN P1 ELSE update(P1, e.u)

\* dstarlite.go 275-296: one element [u, v, cost] of changes
updateEdge(P, e) ==
  LET cOld == DWeight(e.u, e.v)
      P0 == [P EXCEPT !.world = [n |-> P.world.n \cup {e.u, e.v},
                                 w |-> Put(P.world.w, <<e.u, e.v>>, e.cost)]]
      P1 == IF cOld > e.cost
            THEN IF e.u # goal
                 THEN [P0 EXCEPT !.nd[e.u].rhs = Min(@, Add(e.cost, P0.nd[e.v].g))]
                 ELSE P0
            ELSE IF P0.nd[e.u].rhs = Add(cOld, P0.nd[e.v].g) /\ e.u # goal
                 THEN recomputeRhs(P0, e.u)
                 ELSE P0
  IN IF e.cost < 0 THEN [P EXCEPT !.panicked = TRUE]
     ELSE IF P1.panicked THEN P1 ELSE update(P1, e.u)

RECURSIVE updateEdges(_, _)
updateEdges(P, changes) ==
  IF changes = <<>> \/ P.panicked THEN P
  ELSE updateEdges(updateEdge(P, Head(changes)), Tail(changes))

\* dstarlite.go 318-345: what Path can return from u with p and weight so
\* far, each range over world.From(u) in any order; kind is "path", "nil",
\* "panic" (next is nil) or "running" (still looping after fuel nodes)
RECURSIVE pathFrom(_, _, _, _, _)
pathFrom(P, u, p, weight, fuel) ==
  IF u = goal THEN {[kind |-> "path", p |-> p, weight |-> weight]}
  ELSE IF P.nd[u].rhs >= Inf THEN {[kind |-> "nil", p |-> <<>>, weight |-> Inf]}
  ELSE LET rhsOf(v) == Add(DWeight(u, v), P.nd[v].g)
           succs == From(P.world, u)
           firstMins == {v \in succs : rhsOf(v) < Inf /\ \A x \in succs : rhsOf(v) <= rhsOf(x)}
       IN IF firstMins = {} THEN {[kind |-> "panic", p |-> p, weight |-> weight]}
          ELSE IF fuel = 0 THEN {[kind |-> "running", p |-> p, weight |-> weight]}
          ELSE UNION {pathFrom(P, v, Append(p, v), Add(weight, DWeight(u, v)), fuel - 1) :
                      v \in firstMins}

\* the planner d as a record, and the variables set from one
Planner ==
  [nd |-> nd, q |-> queue, s |-> dS, last |-> dLast, km |-> k_m, world |-> world,
   panicked |-> panicked]

Becomes(P) ==
  /\ nd' = P.nd
  /\ queue' = P.q
  /\ dS' = P.s
  /\ dLast' = P.last
  /\ k_m' = P.km
  /\ world' = P.world
  /\ panicked' = P.panicked

\* no call is running
Idle == pc \in {"ds_idle", "ds_path"}

\* dstarlite.go 48-108: NewDStarLite up to the call of findShortestPath.
\* Line 88 calls the argument h, not d.heuristic: a nil h panics there.
NewDStarLite ==
  /\ pc = "ds_new"
  /\ IF hNil
     THEN /\ panicked' = TRUE
          /\ pc' = "ds_panic"
          /\ UNCHANGED <<nd, queue, dS, dLast, k_m, world>>
     ELSE LET P0 == [nd |-> [n \in g.n |-> IF n = goal THEN DStarLiteNode(0, Inf)
                                           ELSE DStarLiteNode(Inf, Inf)],
                     q |-> [nodes |-> <<>>, indexOf |-> EmptyMap],
                     s |-> start, last |-> start, km |-> 0,
                     world |-> [n |-> g.n, w |-> g.w],
                     panicked |-> \E e \in DOMAIN g.w : g.w[e] < 0]
              P1 == insert(P0, goal, <<dh[start][goal], 0>>)
          IN /\ Becomes(P1)
             /\ pc' = IF P1.panicked THEN "ds_panic" ELSE "ds_fsp"
  /\ UNCHANGED <<stVars, g, start, goal, heuristic, openSet, closedSet, predecessor,
                 nodesExpanded, curr, nbrs, costs, nodeIDMap, paths, aPath, aCost,
                 bfVars, joVars, hNil, dh, calls, pathP, pathWeight, pathNil, dChanges, dStepped>>

\* dstarlite.go 174-208: one iteration of the loop of findShortestPath
FindShortestPathIter ==
  /\ pc = "ds_fsp"
  /\ ~findShortestPathDone(Planner)
  /\ \E preds \in Orders(To(world, top(Planner))) :
       \E P1 \in {findShortestPathIter(Planner, preds)} :
         /\ Becomes(P1)
         /\ pc' = IF P1.panicked THEN "ds_panic" ELSE "ds_fsp"
  /\ UNCHANGED <<stVars, g, start, goal, heuristic, openSet, closedSet, predecessor,
                 nodesExpanded, curr, nbrs, costs, nodeIDMap, paths, aPath, aCost,
                 bfVars, joVars, hNil, dh, calls, pathP, pathWeight, pathNil, dChanges, dStepped>>

\* dstarlite.go 174-178, 209: the loop ends and the caller returns
FindShortestPathReturn ==
  /\ pc = "ds_fsp"
  /\ findShortestPathDone(Planner)
  /\ pc' = "ds_idle"
  /\ UNCHANGED <<stVars, g, start, goal, heuristic, openSet, closedSet, predecessor,
                 nodesExpanded, curr, nbrs, costs, nodeIDMap, paths, aPath, aCost,
                 bfVars, joVars, dsVars>>

\* dstarlite.go 215-242 (what Path returned before is out of date after
\* any of Step, MoveTo and UpdateWorld, and dropped)
StepWithin(maxCalls) ==
  /\ Idle
  /\ calls < maxCalls
  /\ calls' = calls + 1
  /\ IF dS = goal \/ nd[dS].rhs >= Inf
     THEN /\ pc' = "ds_idle"
          /\ dStepped' = "false"
          /\ UNCHANGED <<nd, queue, dS, dLast, k_m, world, panicked>>
     ELSE \E succs \in Orders(From(world, dS)) :
            LET next == stepNext(Planner, succs, Inf, 0) IN
            IF next = 0
            THEN /\ panicked' = TRUE
                 /\ pc' = "ds_panic"
                 /\ dStepped' = ""
                 /\ UNCHANGED <<nd, queue, dS, dLast, k_m, world>>
            ELSE /\ Becomes(moveTo(Planner, next))
                 /\ pc' = "ds_idle"
                 /\ dStepped' = "true"
  /\ pathP' = <<>> /\ pathWeight' = 0 /\ pathNil' = FALSE
  /\ dChanges' = <<>>
  /\ UNCHANGED <<stVars, g, start, goal, heuristic, openSet, closedSet, predecessor,
                 nodesExpanded, curr, nbrs, costs, nodeIDMap, paths, aPath, aCost,
                 bfVars, joVars, hNil, dh>>

Step == StepWithin(MaxCalls)

\* dstarlite.go 245-249, called with a node of the world
MoveTo ==
  /\ Idle
  /\ calls < MaxCalls
  /\ calls' = calls + 1
  /\ \E n \in world.n : Becomes(moveTo(Planner, n))
  /\ pc' = "ds_idle"
  /\ pathP' = <<>> /\ pathWeight' = 0 /\ pathNil' = FALSE
  /\ dChanges' = <<>>
  /\ dStepped' = ""
  /\ UNCHANGED <<stVars, g, start, goal, heuristic, openSet, closedSet, predecessor,
                 nodesExpanded, curr, nbrs, costs, nodeIDMap, paths, aPath, aCost,
                 bfVars, joVars, hNil, dh>>

\* the slices of changes UpdateWorld is called with: none, or a new cost for
\* one edge of the world
Changes(W) ==
  {<<>>} \cup {<<[u |-> e[1], v |-> e[2], cost |-> c]>> : e \in DOMAIN W.w, c \in 0..MaxWeight}

\* dstarlite.go 253-296: UpdateWorld up to the call of findShortestPath
UpdateWorldWith(C) ==
  /\ Idle
  /\ calls < MaxCalls
  /\ calls' = calls + 1
  /\ \E changes \in C :
       /\ dChanges' = changes
       /\ dStepped' = ""
       /\ IF changes = <<>>
          THEN /\ pc' = "ds_idle"
               /\ UNCHANGED <<nd, queue, dS, dLast, k_m, world, panicked>>
          ELSE LET P0 == [Planner EXCEPT !.km = Add(k_m, dh[dLast][dS]), !.last = dS]
                   P1 == updateEdges(P0, changes)
               IN /\ Becomes(P1)
                  /\ pc' = IF P1.panicked THEN "ds_panic" ELSE "ds_fsp"
  /\ pathP' = <<>> /\ pathWeight' = 0 /\ pathNil' = FALSE
  /\ UNCHANGED <<stVars, g, start, goal, heuristic, openSet, closedSet, predecessor,
                 nodesExpanded, curr, nbrs, costs, nodeIDMap, paths, aPath, aCost,
                 bfVars, joVars, hNil, dh>>

UpdateWorld == UpdateWorldWith(Changes(world))

\* dstarlite.go 318-345
Path ==
  /\ Idle
  /\ \E r \in pathFrom(Planner, dS, <<dS>>, 0, MaxPathLen) :
       /\ r.kind # "running"
       /\ IF r.kind = "panic"
          THEN /\ panicked' = TRUE
               /\ pc' = "ds_panic"
               /\ UNCHANGED <<pathP, pathWeight, pathNil>>
          ELSE /\ pathP' = r.p
               /\ pathWeight' = r.weight
               /\ pathNil' = (r.kind = "nil")
               /\ pc' = "ds_path"
               /\ UNCHANGED panicked
  /\ UNCHANGED <<stVars, g, start, goal, heuristic, openSet, closedSet, predecessor,
                 nodesExpanded, curr, nbrs, costs, nodeIDMap, paths, aPath, aCost,
                 bfVars, joVars, hNil, dh, dS, dLast, k_m, world, nd, queue, calls, dChanges, dStepped>>

\* ------------------------------------------------ specification: D* Lite
NullHeuristic(G) == [a \in G.n |-> [b \in G.n |-> 0]]

\* a consistent heuristic: the distance in g, cut off at MaxH
CappedDistance(G) == [a \in G.n |-> [b \in G.n |-> Min(Dist(G, a, b), MaxH)]]

InitDStar ==
  /\ g \in Graphs(1..DNodes, Slots(1..DNodes), 0..MaxWeight, DMaxEdges)
  /\ start = 1
  /\ goal = DNodes
  /\ hNil \in BOOLEAN
  /\ dh \in IF hNil THEN {NullHeuristic(g)} ELSE {NullHeuristic(g), CappedDistance(g)}
  /\ heuristic = [n \in 1..DNodes |-> 0]
  /\ pc = "ds_new"
  /\ openSet = EmptyQueue
  /\ closedSet = {}
  /\ predecessor = EmptyMap
  /\ nodesExpanded = 0
  /\ curr = NoNode
  /\ nbrs = <<>>
  /\ costs = EmptyMap
  /\ nodeIDMap = {}
  /\ paths = EmptyMap
  /\ aPath = <<>>
  /\ aCost = 0
  /\ nodes = <<>>
  /\ pass = 0
  /\ idx = 0
  /\ err = FALSE
  /\ nilMaps = FALSE
  /\ dummyGraph = [n |-> {}, w |-> EmptyMap]
  /\ jSource = 0
  /\ nodePaths = EmptyMap
  /\ nodeCosts = EmptyMap
  /\ dS = 0
  /\ dLast = 0
  /\ k_m = 0
  /\ world = [n |-> {}, w |-> EmptyMap]
  /\ nd = EmptyMap
  /\ queue = [nodes |-> <<>>, indexOf |-> EmptyMap]
  /\ panicked = FALSE
  /\ calls = 0
  /\ pathP = <<>>
  /\ pathWeight = 0
  /\ pathNil = FALSE
  /\ dChanges = <<>>
  /\ dStepped = ""
  /\ StructIdle

NextDStar ==
  \/ NewDStarLite
  \/ FindShortestPathIter
  \/ FindShortestPathReturn
  \/ Step
  \/ MoveTo
  \/ UpdateWorld
  \/ Path

SpecDStar == InitDStar /\ [][NextDStar]_vars

\* ------------- specification: D* Lite stepping to the goal, no UpdateWorld
\* the weights are positive and the goal can be reached from the start; the
\* caller calls Step up to DMaxSteps times
DStepNodes == 4
DStepEdges == 3
DMaxSteps == 4

StepToGoal == StepWithin(DMaxSteps)

InitDStarSteps ==
  /\ g \in {G \in Graphs(1..DStepNodes, Slots(1..DStepNodes), 1..MaxWeight, DStepEdges) :
            Reachable(G, 1, DStepNodes)}
  /\ start = 1
  /\ goal = DStepNodes
  /\ hNil = FALSE
  /\ dh \in {NullHeuristic(g), CappedDistance(g)}
  /\ heuristic = [n \in 1..DStepNodes |-> 0]
  /\ pc = "ds_new"
  /\ openSet = EmptyQueue
  /\ closedSet = {}
  /\ predecessor = EmptyMap
  /\ nodesExpanded = 0
  /\ curr = NoNode
  /\ nbrs = <<>>
  /\ costs = EmptyMap
  /\ nodeIDMap = {}
  /\ paths = EmptyMap
  /\ aPath = <<>>
  /\ aCost = 0
  /\ nodes = <<>>
  /\ pass = 0
  /\ idx = 0
  /\ err = FALSE
  /\ nilMaps = FALSE
  /\ dummyGraph = [n |-> {}, w |-> EmptyMap]
  /\ jSource = 0
  /\ nodePaths = EmptyMap
  /\ nodeCosts = EmptyMap
  /\ dS = 0
  /\ dLast = 0
  /\ k_m = 0
  /\ world = [n |-> {}, w |-> EmptyMap]
  /\ nd = EmptyMap
  /\ queue = [nodes |-> <<>>, indexOf |-> EmptyMap]
  /\ panicked = FALSE
  /\ calls = 0
  /\ pathP = <<>>
  /\ pathWeight = 0
  /\ pathNil = FALSE
  /\ dChanges = <<>>
  /\ dStepped = ""
  /\ StructIdle

NextDStarSteps ==
  \/ NewDStarLite
  \/ FindShortestPathIter
  \/ FindShortestPathReturn
  \/ StepToGoal

\* a call runs to completion and the caller goes on calling Step
SpecDStarSteps == InitDStarSteps /\ [][NextDStarSteps]_vars /\ WF_vars(NextDStarSteps)

\* ------------------------- specification: D* Lite with weights of any sign
DMaxEdgesAny == 2
DMaxChanges == 2

\* the slices of changes with costs of any sign for edges of the world
ChangesAny(W) ==
  LET one == {[u |-> e[1], v |-> e[2], cost |-> c] : e \in DOMAIN W.w, c \in (-1)..1}
  IN UNION {[1..n -> one] : n \in 0..DMaxChanges}

UpdateWorldAny == UpdateWorldWith(ChangesAny(world))

InitDStarAny ==
  /\ g \in Graphs(1..DNodes, Slots(1..DNodes), (-1)..1, DMaxEdgesAny)
  /\ start = 1
  /\ goal = DNodes
  /\ hNil = FALSE
  /\ dh = NullHeuristic(g)
  /\ heuristic = [n \in 1..DNodes |-> 0]
  /\ pc = "ds_new"
  /\ openSet = EmptyQueue
  /\ closedSet = {}
  /\ predecessor = EmptyMap
  /\ nodesExpanded = 0
  /\ curr = NoNode
  /\ nbrs = <<>>
  /\ costs = EmptyMap
  /\ nodeIDMap = {}
  /\ paths = EmptyMap
  /\ aPath = <<>>
  /\ aCost = 0
  /\ nodes = <<>>
  /\ pass = 0
  /\ idx = 0
  /\ err = FALSE
  /\ nilMaps = FALSE
  /\ dummyGraph = [n |-> {}, w |-> EmptyMap]
  /\ jSource = 0
  /\ nodePaths = EmptyMap
  /\ nodeCosts = EmptyMap
  /\ dS = 0
  /\ dLast = 0
  /\ k_m = 0
  /\ world = [n |-> {}, w |-> EmptyMap]
  /\ nd = EmptyMap
  /\ queue = [nodes |-> <<>>, indexOf |-> EmptyMap]
  /\ panicked = FALSE
  /\ calls = 0
  /\ pathP = <<>>
  /\ pathWeight = 0
  /\ pathNil = FALSE
  /\ dChanges = <<>>
  /\ dStepped = ""
  /\ StructIdle

NextDStarAny ==
  \/ NewDStarLite
  \/ FindShortestPathIter
  \/ FindShortestPathReturn
  \/ Step
  \/ MoveTo
  \/ UpdateWorldAny
  \/ Path

SpecDStarAny == InitDStarAny /\ [][NextDStarAny]_vars

\* -------------------------------------------------------- claims: D* Lite
\* what Path returned is a least-weight path from a to the goal in G, with
\* its weight, or (nil, +Inf) if G has no path from a to the goal
PathIsOptimal(G, a) ==
  IF Reachable(G, a, goal)
  THEN /\ ~pathNil
       /\ PathFromTo(pathP, G, a, goal)
       /\ PathWeight(pathP, G) = Dist(G, a, goal)
       /\ pathWeight = Dist(G, a, goal)
  ELSE pathNil /\ pathWeight = Inf

\* C3: right after NewDStarLite(s, t, g, h, world) on a graph with
\* non-negative weights, Path returns a least-weight path of g from s to t
\* and its weight, or (nil, +Inf) if t is unreachable from s.
C3_PathAfterNew ==
  calls = 0 =>
    /\ ~panicked
    /\ pc = "ds_path" => PathIsOptimal(g, start)

\* the part of C3 that is about planners built with a heuristic
C3_WithHeuristic ==
  (calls = 0 /\ ~hNil) =>
    /\ ~panicked
    /\ pc = "ds_path" => PathIsOptimal(g, start)

\* C2: after any sequence of Step, MoveTo and UpdateWorld calls on a planner,
\* Path returns a least-weight path from the current location to the goal in
\* the world with every change applied, and (nil, +Inf) only if there is none.
C2_PathAfterCalls ==
  ~hNil =>
    /\ ~panicked
    /\ pc = "ds_path" => PathIsOptimal(world, dS)

\* ================================================= package structure, topo
\* everything the path routines own besides the graph g and the position pc
pathVars == <<start, goal, heuristic, openSet, closedSet, predecessor,
              nodesExpanded, curr, nbrs, costs, nodeIDMap, paths, aPath, aCost,
              bfVars, joVars, dsVars>>

\* the path routines before any call
PathIdle ==
  /\ start = 1
  /\ goal = 1
  /\ heuristic = EmptyMap
  /\ openSet = EmptyQueue
  /\ closedSet = {}
  /\ predecessor = EmptyMap
  /\ nodesExpanded = 0
  /\ curr = NoNode
  /\ nbrs = <<>>
  /\ costs = EmptyMap
  /\ nodeIDMap = {}
  /\ paths = EmptyMap
  /\ aPath = <<>>
  /\ aCost = 0
  /\ nodes = <<>>
  /\ pass = 0
  /\ idx = 0
  /\ err = FALSE
  /\ nilMaps = FALSE
  /\ dummyGraph = [n |-> {}, w |-> EmptyMap]
  /\ jSource = 0
  /\ nodePaths = EmptyMap
  /\ nodeCosts = EmptyMap
  /\ hNil = FALSE
  /\ dh = EmptyMap
  /\ dS = 0
  /\ dLast = 0
  /\ k_m = 0
  /\ world = [n |-> {}, w |-> EmptyMap]
  /\ nd = EmptyMap
  /\ queue = [nodes |-> <<>>, indexOf |-> EmptyMap]
  /\ panicked = FALSE
  /\ calls = 0
  /\ pathP = <<>>
  /\ pathWeight = 0
  /\ pathNil = FALSE
  /\ dChanges = <<>>
  /\ dStepped = ""

\* the elements of a slice
Range(s) == {s[i] : i \in 1..Len(s)}

\* ---------------------------------------------------------------- TarjanSCC
TNodes == 4
TMaxEdges == 4

\* the first lines of strongconnect(v): v gets the next index and is pushed
strongconnectEnter(t, v) ==
  [t EXCEPT !.index = t.index + 1,
            !.indexTable = Put(t.indexTable, v, t.index + 1),
            !.lowLink = Put(t.lowLink, v, t.index + 1),
            !.stack = Append(t.stack, v),
            !.onStack = t.onStack \cup {v}]

\* the successor w of v was visited before, and is not looked at unless it
\* is on the stack; here the stack is not consulted
strongconnectVisitedAnyway(t, v, w) ==
  [t EXCEPT !.lowLink = Put(t.lowLink, v, Min(t.lowLink[v], CostAt(t.indexTable, w)))]

\* the successor w of v was visited before
strongconnectVisited(t, v, w) ==
  IF w \in t.onStack
  THEN [t EXCEPT !.lowLink = Put(t.lowLink, v, Min(t.lowLink[v], CostAt(t.indexTable, w)))]
  ELSE t

\* the position in the stack down to which a root v pops
RECURSIVE stackPosition(_, _, _)
stackPosition(st, v, i) == IF st[i] = v THEN i ELSE stackPosition(st, v, i - 1)

\* slots i..Len(st) of the stack in the order they are popped
RECURSIVE popped(_, _)
popped(st, i) == IF Len(st) < i THEN <<>> ELSE <<st[Len(st)]>> \o popped(SubSeq(st, 1, Len(st) - 1), i)

\* the end of strongconnect(v): a root pops its component
strongconnectLeave(t, v) ==
  IF t.lowLink[v] = t.indexTable[v]
  THEN LET i == stackPosition(t.stack, v, Len(t.stack))
           scc == popped(t.stack, i)
       IN [t EXCEPT !.stack = SubSeq(t.stack, 1, i - 1),
                    !.onStack = t.onStack \ Range(scc),
                    !.sccs = Append(t.sccs, scc)]
  ELSE t

\* the frame of a strongconnect(v) call ranging over succ
TarjanFrame(v, succ) == [v |-> v, succ |-> succ]

TarjanCall ==
  /\ pc = "t_call"
  /\ \E o \in Orders(g.n) : tjNodes' = o
  /\ pc' = "t_loop"
  /\ UNCHANGED <<g, pathVars, tj, tjFrames, exceptTarjan>>

\* one turn of the loop over the nodes in TarjanSCC
TarjanNode ==
  /\ pc = "t_loop"
  /\ tjFrames = <<>>
  /\ tjNodes # <<>>
  /\ LET v == Head(tjNodes) IN
       IF CostAt(tj.indexTable, v) = 0
       THEN /\ tj' = strongconnectEnter(tj, v)
            /\ \E so \in Orders(From(g, v)) : tjFrames' = <<TarjanFrame(v, so)>>
       ELSE UNCHANGED <<tj, tjFrames>>
  /\ tjNodes' = Tail(tjNodes)
  /\ UNCHANGED <<g, pc, pathVars, exceptTarjan>>

\* one turn of the loop over the successors in strongconnect
TarjanSucc ==
  /\ pc = "t_loop"
  /\ tjFrames # <<>>
  /\ LET n == Len(tjFrames)
         f == tjFrames[n]
     IN /\ f.succ # <<>>
        /\ LET w == Head(f.succ)
               rest == [tjFrames EXCEPT ![n].succ = Tail(f.succ)]
           IN IF CostAt(tj.indexTable, w) = 0
              THEN /\ tj' = strongconnectEnter(tj, w)
                   /\ \E so \in Orders(From(g, w)) :
                        tjFrames' = Append(rest, TarjanFrame(w, so))
              ELSE /\ tj' = strongconnectVisited(tj, f.v, w)
                   /\ tjFrames' = rest
  /\ UNCHANGED <<g, pc, pathVars, tjNodes, exceptTarjan>>

\* strongconnect(w) returns, and its caller takes over the low link of w
TarjanLeave ==
  /\ pc = "t_loop"
  /\ tjFrames # <<>>
  /\ LET n == Len(tjFrames)
         f == tjFrames[n]
         t == strongconnectLeave(tj, f.v)
     IN /\ f.succ = <<>>
        /\ tjFrames' = SubSeq(tjFrames, 1, n - 1)
        /\ tj' = IF n = 1 THEN t
                 ELSE LET v == tjFrames[n - 1].v IN
                      [t EXCEPT !.lowLink = Put(t.lowLink, v, Min(t.lowLink[v], t.lowLink[f.v]))]
  /\ UNCHANGED <<g, pc, pathVars, tjNodes, exceptTarjan>>

TarjanReturn ==
  /\ pc = "t_loop"
  /\ tjFrames = <<>>
  /\ tjNodes = <<>>
  /\ pc' = "t_done"
  /\ UNCHANGED <<g, pathVars, tjVars, exceptTarjan>>

InitTarjan ==
  /\ g \in Graphs(1..TNodes, Slots(1..TNodes), {1}, TMaxEdges)
  /\ pc = "t_call"
  /\ PathIdle
  /\ StructIdle

NextTarjan ==
  \/ TarjanCall
  \/ TarjanNode
  \/ TarjanSucc
  \/ TarjanLeave
  \/ TarjanReturn

SpecTarjan == InitTarjan /\ [][NextTarjan]_vars

\* ------------------------------------------------------- claims: TarjanSCC
\* the position in the list sccs of the set that holds the node v
SccOf(sccs, v) == CHOOSE i \in 1..Len(sccs) : v \in Range(sccs[i])

\* C11: TarjanSCC returns a list of node sets in which every node of g is in
\* exactly one set, every set is a maximal set of mutually reachable nodes,
\* and for every edge u->v between two sets the set of v comes earlier.
C11_TarjanSCC ==
  pc = "t_done" =>
    LET sccs == tj.sccs IN
    /\ \A v \in g.n : Cardinality({i \in 1..Len(sccs) : v \in Range(sccs[i])}) = 1
    /\ \A i \in 1..Len(sccs) :
         /\ Cardinality(Range(sccs[i])) = Len(sccs[i])
         /\ Range(sccs[i]) \subseteq g.n
         /\ \A u \in Range(sccs[i]) : \A v \in g.n :
              v \in Range(sccs[i]) <=> (Reachable(g, u, v) /\ Reachable(g, v, u))
    /\ \A e \in DOMAIN g.w :
         SccOf(sccs, e[1]) # SccOf(sccs, e[2]) => SccOf(sccs, e[2]) < SccOf(sccs, e[1])

\* a graph with a cycle and an edge between two components has been searched
C11_Witness ==
  /\ pc = "t_done"
  /\ \E i \in 1..Len(tj.sccs) : Len(tj.sccs[i]) > 1
  /\ \E e \in DOMAIN g.w : SccOf(tj.sccs, e[1]) # SccOf(tj.sccs, e[2])

\* ------------------------------------------------ concrete.UndirectedGraph
Max(a, b) == IF a > b THEN a ELSE b

Has(G, n) == n \in G.nodeMap

UAddNode(G, n) ==
  [nodeMap |-> G.nodeMap \cup {n},
   neighbors |-> Put(G.neighbors, n, EmptyMap),
   maxID |-> Max(G.maxID, n),
   freeMap |-> G.freeMap \ {n}]

\* the WeightedEdge stored under both endpoints keeps the edge as it was given
AddUndirectedEdge(G, from, to, weight) ==
  LET G1 == IF Has(G, from) THEN G ELSE UAddNode(G, from)
      G2 == IF Has(G1, to) THEN G1 ELSE UAddNode(G1, to)
      we == [e |-> <<from, to>>, weight |-> weight]
      n1 == Put(G2.neighbors, from, Put(G2.neighbors[from], to, we))
      n2 == Put(n1, to, Put(n1[to], from, we))
  IN [G2 EXCEPT !.neighbors = n2]

HasEdge(G, n, neigh) == n \in DOMAIN G.neighbors /\ neigh \in DOMAIN G.neighbors[n]

\* undirected graphs: at most one edge between two nodes, in either direction
UGraphs(N, W, maxE) ==
  {G \in Graphs(N, Slots(N), W, maxE) : \A e \in DOMAIN G.w : <<e[2], e[1]>> \notin DOMAIN G.w}

\* ------------------------------------------------------------ disjoint set
makeSet(d, n) ==
  IF n \in d.master THEN d
  ELSE [master |-> d.master \cup {n}, parent |-> Put(d.parent, n, n), rank |-> Put(d.rank, n, 0)]

\* find(dsNode): the root, and the set after the path to it was compressed
RECURSIVE findNode(_, _)
findNode(d, x) ==
  IF d.parent[x] # x
  THEN LET r == findNode(d, d.parent[x]) IN
       [ds |-> [r.ds EXCEPT !.parent = Put(r.ds.parent, x, r.p)], p |-> r.p]
  ELSE [ds |-> d, p |-> x]

\* ds.find(n); the nil result is 0
find(d, n) ==
  IF n \notin d.master THEN [ds |-> d, p |-> 0]
  ELSE LET r == findNode(d, n) IN
       [ds |-> [r.ds EXCEPT !.parent = Put(r.ds.parent, n, r.p)], p |-> r.p]

\* x itself, not its root, is hung under the root of y
unionNode(d, x, y) ==
  LET rx == findNode(d, x)
      ry == findNode(rx.ds, y)
      d2 == ry.ds
  IN IF rx.p = ry.p THEN d2
     ELSE [d2 EXCEPT !.parent = Put(d2.parent, x, ry.p)]

\* ds.union(x, y) for two nodes x, y that are not nil
union(d, x, y) ==
  LET rx == findNode(d, x)
      ry == findNode(rx.ds, y)
      d2 == ry.ds
      xRoot == rx.p
      yRoot == ry.p
  IN IF xRoot = yRoot THEN d2
     ELSE IF d2.rank[xRoot] < d2.rank[yRoot]
          THEN [d2 EXCEPT !.parent = Put(d2.parent, xRoot, yRoot)]
     ELSE IF d2.rank[yRoot] < d2.rank[xRoot]
          THEN [d2 EXCEPT !.parent = Put(d2.parent, yRoot, xRoot)]
     ELSE [d2 EXCEPT !.parent = Put(d2.parent, yRoot, xRoot),
                     !.rank = Put(d2.rank, xRoot, d2.rank[xRoot] + 1)]

\* the ids the disjoint set is called with
DIds == 4
\* ds.makeSet(n)
DSMakeSet ==
  /\ pc = "ds_call"
  /\ \E n \in 1..DIds :
       /\ ds' = makeSet(ds, n)
       /\ dsCall' = [op |-> "makeSet", n |-> n, ret |-> 0]
  /\ UNCHANGED <<g, pc, pathVars, dsUnions, exceptDisjoint>>

\* ds.find(n)
DSFind ==
  /\ pc = "ds_call"
  /\ \E n \in 1..DIds :
       LET r == find(ds, n) IN
       /\ ds' = r.ds
       /\ dsCall' = [op |-> "find", n |-> n, ret |-> r.p]
  /\ UNCHANGED <<g, pc, pathVars, dsUnions, exceptDisjoint>>

\* the sets of U after a call that joins x and y
Joined(U, x, y) ==
  LET touched == {S \in U : x \in S \/ y \in S} IN
  IF x = y THEN U ELSE (U \ touched) \cup {UNION touched \cup {x, y}}

\* ds.union(x, y) for two nodes of the set, or nil (0) for either
DSUnion ==
  /\ pc = "ds_call"
  /\ \E x, y \in ds.master \cup {0} :
       IF x = 0 \/ y = 0
       THEN /\ pc' = "ds_panic"
            /\ dsCall' = [op |-> "union", n |-> 0, ret |-> 0]
            /\ UNCHANGED <<ds, dsUnions>>
       ELSE /\ ds' = union(ds, x, y)
            /\ dsUnions' = Joined(dsUnions, x, y)
            /\ dsCall' = [op |-> "union", n |-> x, ret |-> 0]
            /\ pc' = pc
  /\ UNCHANGED <<g, pathVars, exceptDisjoint>>

InitDisjoint ==
  /\ g = [n |-> {}, w |-> EmptyMap]
  /\ pc = "ds_call"
  /\ PathIdle
  /\ StructIdle

NextDisjoint ==
  \/ DSMakeSet
  \/ DSFind
  \/ DSUnion

SpecDisjoint == InitDisjoint /\ [][NextDisjoint]_vars

\* ------------------------------------------------------------ Prim, Kruskal
MNodes == 3
MMaxWeight == 2
\* the turns of Prim's main loop that are followed
PrimMaxIter == 4

\* the edges Prim collects in one turn of its main loop
primEdges(G, D, rem) ==
  {e \in DOMAIN G.w : \/ (Has(D, e[1]) /\ e[2] \in rem)
                      \/ (Has(D, e[2]) /\ e[1] \in rem)}

\* the edges sort.Sort(byWeight(edges)) can leave in slot 0
lightest(G, E) == {e \in E : \A x \in E : ~(G.w[x] < G.w[e])}

PrimCall ==
  /\ pc = "p_call"
  /\ \E first \in g.n :
       /\ dst' = UAddNode(dst, first)
       /\ remainingNodes' = g.n \ {first}
  /\ pc' = "p_loop"
  /\ UNCHANGED <<g, pathVars, primIter, dst2, kEdges, ds, exceptMST>>

\* one turn of Prim's main loop; edges[0] of an empty slice panics
PrimIteration ==
  /\ pc = "p_loop"
  /\ remainingNodes # {}
  /\ primIter < PrimMaxIter
  /\ primIter' = primIter + 1
  /\ LET edges == primEdges(g, dst, remainingNodes) IN
       IF edges = {}
       THEN /\ pc' = "p_panic"
            /\ UNCHANGED <<dst, remainingNodes>>
       ELSE /\ \E myEdge \in lightest(g, edges) :
                 /\ dst' = AddUndirectedEdge(dst, myEdge[1], myEdge[2], g.w[myEdge])
                 /\ remainingNodes' = remainingNodes \ {myEdge[1]}
            /\ pc' = pc
  /\ UNCHANGED <<g, pathVars, dst2, kEdges, ds, exceptMST>>

\* Prim returns, and Kruskal is called on the same graph
PrimReturn ==
  /\ pc = "p_loop"
  /\ remainingNodes = {}
  /\ pc' = "k_call"
  /\ UNCHANGED <<g, pathVars, mstVars, exceptMST>>

\* ds.MakeSet for every id of N
RECURSIVE makeSets(_, _)
makeSets(d, N) ==
  IF N = {} THEN d
  ELSE LET n == CHOOSE x \in N : TRUE IN makeSets(makeSet(d, n), N \ {n})

\* the orders sort.Sort(byWeight(edges)) can leave the edges of G in
sortedEdges(G) ==
  {o \in Orders(DOMAIN G.w) : \A i, j \in 1..Len(o) : i < j => ~(G.w[o[j]] < G.w[o[i]])}

KruskalCall ==
  /\ pc = "k_call"
  /\ kEdges' \in sortedEdges(g)
  /\ ds' = makeSets(newDisjointSet, g.n)
  /\ pc' = "k_loop"
  /\ UNCHANGED <<g, pathVars, dst, remainingNodes, primIter, dst2, exceptMST>>

\* one turn of the loop over the sorted edges
KruskalEdge ==
  /\ pc = "k_loop"
  /\ kEdges # <<>>
  /\ LET edge == Head(kEdges)
         s1 == find(ds, edge[1])
         s2 == find(s1.ds, edge[2])
     IN IF s1.p # s2.p
        THEN /\ ds' = union(s2.ds, s1.p, s2.p)
             /\ dst2' = AddUndirectedEdge(dst2, edge[1], edge[2], g.w[edge])
        ELSE /\ ds' = s2.ds
             /\ dst2' = dst2
  /\ kEdges' = Tail(kEdges)
  /\ UNCHANGED <<g, pc, pathVars, dst, remainingNodes, primIter, exceptMST>>

KruskalReturn ==
  /\ pc = "k_loop"
  /\ kEdges = <<>>
  /\ pc' = "k_done"
  /\ UNCHANGED <<g, pathVars, mstVars, exceptMST>>

InitMST ==
  /\ g \in UGraphs(1..MNodes, 1..MMaxWeight, MNodes)
  /\ pc = "p_call"
  /\ PathIdle
  /\ StructIdle

NextMST ==
  \/ PrimCall
  \/ PrimIteration
  \/ PrimReturn
  \/ KruskalCall
  \/ KruskalEdge
  \/ KruskalReturn

SpecMST == InitMST /\ [][NextMST]_vars

\* ---------------------------------------------------- claims: Prim, Kruskal
\* the nodes that the edges E can reach from the set S
RECURSIVE Grow(_, _)
Grow(E, S) ==
  LET T == S \cup {e[2] : e \in {x \in E : x[1] \in S}} IN
  IF T = S THEN S ELSE Grow(E, T)

\* the edges E join all of N, in whatever direction they are walked
ConnectedBy(N, E) ==
  \/ N = {}
  \/ Grow(E \cup {<<e[2], e[1]>> : e \in E}, {CHOOSE n \in N : TRUE}) = N

\* the edges of an undirected graph, each once
UEdges(D) == {e \in D.nodeMap \X D.nodeMap : e[1] < e[2] /\ HasEdge(D, e[1], e[2])}

RECURSIVE TotalWeight(_, _)
TotalWeight(D, E) ==
  IF E = {} THEN 0
  ELSE LET e == CHOOSE x \in E : TRUE IN
       D.neighbors[e[1]][e[2]].weight + TotalWeight(D, E \ {e})

\* D is a spanning tree of G
SpanningTree(D, G) ==
  /\ D.nodeMap = G.n
  /\ Cardinality(UEdges(D)) = Cardinality(G.n) - 1
  /\ ConnectedBy(D.nodeMap, UEdges(D))
  /\ \A e \in UEdges(D) :
       \E x \in DOMAIN G.w : /\ {x[1], x[2]} = {e[1], e[2]}
                             /\ G.w[x] = D.neighbors[e[1]][e[2]].weight

\* C12: on a connected undirected weighted graph Prim and Kruskal each leave
\* a spanning tree of g in their destination, and the two trees have the same
\* total weight.
C12_PrimKruskal ==
  ConnectedBy(g.n, DOMAIN g.w) =>
    /\ pc \in {"k_call", "k_loop", "k_done"} => SpanningTree(dst, g)
    /\ pc = "k_done" =>
         /\ SpanningTree(dst2, g)
         /\ TotalWeight(dst, UEdges(dst)) = TotalWeight(dst2, UEdges(dst2))

\* C13: on a connected graph with n nodes Prim's main loop takes exactly n-1
\* turns, each attaching one node that was not in dst and removing it from
\* the remaining set, whichever end of the chosen edge it is.
C13_PrimIterations ==
  (ConnectedBy(g.n, DOMAIN g.w) /\ pc \in {"p_loop", "k_call"}) =>
    /\ remainingNodes = g.n \ dst.nodeMap
    /\ primIter = Cardinality(dst.nodeMap) - 1
    /\ primIter <= Cardinality(g.n) - 1
    /\ pc = "k_call" => primIter = Cardinality(g.n) - 1

\* ----------------------------------------------------------- VertexOrdering
\* one slot for every pair of nodes
UpperSlots(N) == {e \in N \X N : e[1] < e[2]}

VNodes == 5
VMaxEdges == 10

\* g.From(n) of an undirected graph given by its edges
Adj(G, n) == {m \in G.n : <<n, m>> \in DOMAIN G.w \/ <<m, n>> \in DOMAIN G.w}

\* the nodes of the slice o that have deg neighbours, in the order of o
RECURSIVE withDegree(_, _, _)
withDegree(G, o, deg) ==
  IF o = <<>> THEN <<>>
  ELSE IF Cardinality(Adj(G, Head(o))) = deg
       THEN <<Head(o)>> \o withDegree(G, Tail(o), deg)
       ELSE withDegree(G, Tail(o), deg)

\* the position of the first non-empty cell of d; the last cell if none is
RECURSIVE firstNonEmpty(_, _)
firstNonEmpty(d, i) ==
  IF i >= Len(d) \/ d[i] # <<>> THEN i ELSE firstNonEmpty(d, i + 1)

\* the position of w in the slice c
RECURSIVE indexIn(_, _, _)
indexIn(c, w, i) == IF c[i] = w THEN i ELSE indexIn(c, w, i + 1)

\* w, a neighbour of the node just listed, keeps its cell in d
lowerDegreeNever(V, w) == V

\* w, a neighbour of the node just listed, moves one cell down in d
lowerDegree(V, w) ==
  IF w \notin DOMAIN V.dv THEN V
  ELSE LET dw == V.dv[w]
           c == V.d[dw + 1]
           i == indexIn(c, w, 1)
           c1 == SubSeq([c EXCEPT ![i] = c[Len(c)]], 1, Len(c) - 1)
           d1 == [V.d EXCEPT ![dw + 1] = c1]
           d2 == [d1 EXCEPT ![dw] = Append(d1[dw], w)]
       IN [V EXCEPT !.d = d2, !.dv = Put(V.dv, w, dw - 1)]

RECURSIVE lowerDegrees(_, _)
lowerDegrees(V, ws) ==
  IF ws = <<>> THEN V ELSE lowerDegrees(lowerDegree(V, Head(ws)), Tail(ws))

\* s after append(s, make([]int, k-len(s)+1)...)
RECURSIVE grown(_, _)
grown(sl, n) == IF Len(sl) >= n THEN sl ELSE grown(Append(sl, 0), n)

RECURSIVE Reverse(_)
Reverse(sl) == IF sl = <<>> THEN <<>> ELSE Append(Reverse(Tail(sl)), Head(sl))

\* cores[i] = l[offset-n : offset] for the counts of sl, from offset down
RECURSIVE coresOf(_, _, _)
coresOf(l, sl, offset) ==
  IF sl = <<>> THEN <<>>
  ELSE <<SubSeq(l, offset - Head(sl) + 1, offset)>> \o coresOf(l, Tail(sl), offset - Head(sl))

VOCall ==
  /\ pc = "v_call"
  /\ \E o \in Orders(g.n) :
       LET maxDegree == SetMax({Cardinality(Adj(g, n)) : n \in g.n}) IN
       vo' = [dv |-> [n \in g.n |-> Cardinality(Adj(g, n))],
              d |-> [i \in 1..(maxDegree + 1) |-> withDegree(g, o, i - 1)],
              k |-> 0, s |-> <<0>>, l |-> <<>>, left |-> Cardinality(g.n)]
  /\ pc' = "v_loop"
  /\ UNCHANGED <<g, pathVars, voOrder, voCores, exceptVO>>

\* one turn of the loop that lists a node of least degree
VOIteration ==
  /\ pc = "v_loop"
  /\ vo.left > 0
  /\ LET i == firstNonEmpty(vo.d, 1) - 1
         di == vo.d[i + 1]
         k == IF i > vo.k THEN i ELSE vo.k
         s1 == IF i > vo.k THEN grown(vo.s, k + 1) ELSE vo.s
         v == di[Len(di)]
         V1 == [vo EXCEPT !.k = k,
                          !.d = [vo.d EXCEPT ![i + 1] = SubSeq(di, 1, Len(di) - 1)],
                          !.l = Append(vo.l, v),
                          !.s = [s1 EXCEPT ![k + 1] = s1[k + 1] + 1],
                          !.dv = Delete(vo.dv, v),
                          !.left = vo.left - 1]
     IN \E ws \in Orders(Adj(g, v)) : vo' = lowerDegrees(V1, ws)
  /\ UNCHANGED <<g, pc, pathVars, voOrder, voCores, exceptVO>>

VOReturn ==
  /\ pc = "v_loop"
  /\ vo.left = 0
  /\ LET l == Reverse(vo.l) IN
       /\ voOrder' = l
       /\ voCores' = coresOf(l, vo.s, Len(l))
  /\ vo' = [dv |-> EmptyMap, d |-> <<>>, k |-> 0, s |-> <<>>, l |-> <<>>, left |-> 0]
  /\ pc' = "v_done"
  /\ UNCHANGED <<g, pathVars, exceptVO>>

InitVO ==
  /\ g \in Graphs(1..VNodes, UpperSlots(1..VNodes), {1}, VMaxEdges)
  /\ pc = "v_call"
  /\ PathIdle
  /\ StructIdle

NextVO ==
  \/ VOCall
  \/ VOIteration
  \/ VOReturn

SpecVO == InitVO /\ [][NextVO]_vars

\* ------------------------------------------------- claims: VertexOrdering
\* the nodes of cores i..k of the list returned, positions counted from 0
FromCore(cores, i) == UNION {Range(cores[j]) : j \in (i + 1)..Len(cores)}

BNodes == 5
\* the graphs searched for cliques have no edge between 1 and 2, so that
\* they have more than one maximal clique, and are complete but for the
\* pairs among the nodes 1..BSparse, which may or may not have an edge
BSparse == 3

\* a slice: the array behind it and its length; the nil slice has no array
Slice(arr, len) == [arr |-> arr, len |-> len]

\* the elements of the slice sl
Elems(arrays, sl) == IF sl.arr = 0 THEN <<>> ELSE SubSeq(arrays[sl.arr], 1, sl.len)

\* []graph.Node{v}: a new array of one slot
sliceOf(arrays, v) ==
  [arrays |-> Append(arrays, <<v>>), sl |-> Slice(Len(arrays) + 1, 1)]

\* append(r, v): v goes to the next slot of the array behind r if there is
\* one, else r is copied to a new array of twice the capacity (0 marks the
\* slots beyond the length)
append(arrays, r, v) ==
  LET a == IF r.arr = 0 THEN <<>> ELSE arrays[r.arr] IN
  IF r.len < Len(a)
  THEN [arrays |-> [arrays EXCEPT ![r.arr][r.len + 1] = v], sl |-> Slice(r.arr, r.len + 1)]
  ELSE [arrays |-> Append(arrays, [i \in 1..Max(1, 2 * Len(a)) |->
                                     IF i <= r.len THEN a[i]
                                     ELSE IF i = r.len + 1 THEN v ELSE 0]),
        sl |-> Slice(Len(arrays) + 1, r.len + 1)]

\* what the pivot loop counts for u: len(nb) less the positions 0..len(nb)-1
\* that are not ids of p
pivotCount(G, p, u) ==
  LET n == Cardinality(Adj(G, u)) IN n - Cardinality((0..(n - 1)) \ p)

\* the neighbour sets choosePivotFrom can return for p and x
choosePivotFrom(G, tk, p, x) ==
  IF ~tk
  THEN IF p # {} THEN {Adj(G, n) : n \in p} ELSE {Adj(G, n) : n \in x}
  ELSE LET best(S) == {u \in S : \A o \in S : pivotCount(G, p, o) <= pivotCount(G, p, u)}
           maxp == IF p = {} THEN -1 ELSE pivotCount(G, p, CHOOSE u \in best(p) : TRUE)
       IN IF \E u \in x : pivotCount(G, p, u) > maxp
          THEN {Adj(G, u) : u \in best(x)}
          ELSE {Adj(G, u) : u \in best(p)}

\* the frame of the loop in BronKerbosch or in maximalCliquePivot
BKFrame(r, p, x, nu, todo) == [r |-> r, p |-> p, x |-> x, nu |-> nu, todo |-> todo, cur |-> 0]

\* the loop body is done for v: p.Remove(v), x.Add(v)
bkDone(f, v) == [f EXCEPT !.p = f.p \ {v}, !.x = f.x \cup {v}, !.cur = 0]

\* BronKerbosch after VertexOrdering has returned the order
BKCall ==
  /\ pc = "v_done"
  /\ bkFrames' = <<BKFrame(Slice(0, 0), g.n, {}, {}, voOrder)>>
  /\ pc' = "bk_loop"
  /\ UNCHANGED <<g, pathVars, tomita, bk, bkArrays, exceptBK>>

\* the call maximalCliquePivot(g, sr, p, x) made for v by the frame f
bkRecur(rest, f, v, made, p, x) ==
  IF p = {} /\ x = {}
  THEN /\ bk' = Append(bk, made.sl)
       /\ bkFrames' = Append(rest, bkDone(f, v))
  ELSE /\ bk' = bk
       /\ \E nu \in choosePivotFrom(g, tomita, p, x) :
            bkFrames' = Append(Append(rest, [f EXCEPT !.cur = v]),
                               BKFrame(made.sl, p, x, nu, p))

\* one turn of the loop over the order in BronKerbosch
BKOrder ==
  /\ pc = "bk_loop"
  /\ Len(bkFrames) = 1
  /\ LET f == bkFrames[1] IN
       /\ f.cur = 0
       /\ f.todo # <<>>
       /\ LET v == Head(f.todo)
              made == sliceOf(bkArrays, v)
          IN /\ bkArrays' = made.arrays
             /\ bkRecur(<<>>, [f EXCEPT !.todo = Tail(f.todo)], v, made,
                        f.p \cap Adj(g, v), f.x \cap Adj(g, v))
  /\ UNCHANGED <<g, pc, pathVars, tomita, exceptBK>>

\* one turn of the loop over p in maximalCliquePivot
BKVisit ==
  /\ pc = "bk_loop"
  /\ Len(bkFrames) > 1
  /\ LET n == Len(bkFrames)
         f == bkFrames[n]
         rest == SubSeq(bkFrames, 1, n - 1)
     IN /\ f.cur = 0
        /\ \E v \in f.todo :
             LET f1 == [f EXCEPT !.todo = f.todo \ {v}] IN
             IF v \in f.nu
             THEN /\ bkFrames' = Append(rest, f1)
                  /\ UNCHANGED <<bk, bkArrays>>
             ELSE LET found == v \in Range(Elems(bkArrays, f.r))
                      made == IF found THEN [arrays |-> bkArrays, sl |-> Slice(0, 0)]
                              ELSE append(bkArrays, f.r, v)
                  IN /\ bkArrays' = made.arrays
                     /\ bkRecur(rest, f1, v, made, f.p \cap Adj(g, v), f.x \cap Adj(g, v))
  /\ UNCHANGED <<g, pc, pathVars, tomita, exceptBK>>

\* maximalCliquePivot returns to the loop that called it
BKLeave ==
  /\ pc = "bk_loop"
  /\ Len(bkFrames) > 1
  /\ LET n == Len(bkFrames)
         f == bkFrames[n]
         c == bkFrames[n - 1]
     IN /\ f.cur = 0
        /\ f.todo = {}
        /\ bkFrames' = Append(SubSeq(bkFrames, 1, n - 2), bkDone(c, c.cur))
  /\ UNCHANGED <<g, pc, pathVars, tomita, bk, bkArrays, exceptBK>>

BKReturn ==
  /\ pc = "bk_loop"
  /\ Len(bkFrames) = 1
  /\ bkFrames[1].cur = 0
  /\ bkFrames[1].todo = <<>>
  /\ pc' = "bk_done"
  /\ UNCHANGED <<g, pathVars, bkVars, exceptBK>>

InitBK ==
  /\ g \in {G \in Graphs(1..BNodes, UpperSlots(1..BNodes), {1}, Cardinality(UpperSlots(1..BNodes))) :
            /\ <<1, 2>> \notin DOMAIN G.w
               /\ (UpperSlots(1..BNodes) \ DOMAIN G.w) \subseteq UpperSlots(1..BSparse)}
  /\ pc = "v_call"
  /\ PathIdle
  /\ TarjanIdle
  /\ MSTIdle
  /\ VOIdle
  /\ DisjointIdle
  /\ DominatorsIdle
  /\ tomita \in BOOLEAN
  /\ bk = <<>>
  /\ bkArrays = <<>>
  /\ bkFrames = <<>>

NextBK ==
  \/ VOCall
  \/ VOIteration
  \/ VOReturn
  \/ BKCall
  \/ BKOrder
  \/ BKVisit
  \/ BKLeave
  \/ BKReturn

SpecBK == InitBK /\ [][NextBK]_vars

\* ----------------------------------------------- Dominators, PostDominators
DomNodes == 4
DomMaxEdges == 4

\* path.go 378-385: the start (or the end) has itself, every other node has
\* all the nodes
domInit(N, s) == [n \in N |-> IF n = s THEN {s} ELSE N]

\* a set that is the first of preds only, whatever the others hold
domOfFirst(doms, node, preds) ==
  {node} \cup doms[CHOOSE p \in preds : TRUE]

\* path.go 397-405: the node and what the sets of all of preds share; the
\* order of preds makes no difference to an intersection
domOf(doms, node, preds) ==
  {node} \cup {d \in UNION {doms[p] : p \in preds} : \A p \in preds : d \in doms[p]}

\* path.go 389-410: the loop body for node, s is the start (or the end)
\* and preds what to(node) (or from(node)) returns
domNode(lp, doms, s, preds) ==
  LET node == Head(lp.todo)
      next == [lp EXCEPT !.todo = Tail(lp.todo)]
  IN IF node = s \/ preds = {} THEN [pass |-> next, doms |-> doms]
     ELSE LET dom == domOf(doms, node, preds) IN
          IF dom # doms[node]
          THEN [pass |-> [next EXCEPT !.somethingChanged = TRUE],
                doms |-> [doms EXCEPT ![node] = dom]]
          ELSE [pass |-> next, doms |-> doms]

DominatorsCall ==
  /\ pc = "dom_call"
  /\ \E nlist \in Orders(g.n) :
       domPass' = [nlist |-> nlist, todo |-> nlist, somethingChanged |-> FALSE]
  /\ dominators' = domInit(g.n, start)
  /\ pc' = "dom_loop"
  /\ UNCHANGED <<g, pathVars, exceptDominators>>

DominatorsNode ==
  /\ pc = "dom_loop"
  /\ domPass.todo # <<>>
  /\ LET r == domNode(domPass, dominators, start, To(g, Head(domPass.todo))) IN
       /\ domPass' = r.pass
       /\ dominators' = r.doms
  /\ UNCHANGED <<g, pc, pathVars, exceptDominators>>

\* a pass that changed a set is followed by another
DominatorsPass ==
  /\ pc = "dom_loop"
  /\ domPass.todo = <<>>
  /\ domPass.somethingChanged
  /\ domPass' = [domPass EXCEPT !.todo = domPass.nlist, !.somethingChanged = FALSE]
  /\ UNCHANGED <<g, pc, pathVars, dominators, exceptDominators>>

DominatorsReturn ==
  /\ pc = "dom_loop"
  /\ domPass.todo = <<>>
  /\ ~domPass.somethingChanged
  /\ pc' = "dom_done"
  /\ UNCHANGED <<g, pathVars, domVars, exceptDominators>>

PostDominatorsCall ==
  /\ pc = "pdom_call"
  /\ \E nlist \in Orders(g.n) :
       domPass' = [nlist |-> nlist, todo |-> nlist, somethingChanged |-> FALSE]
  /\ dominators' = domInit(g.n, goal)
  /\ pc' = "pdom_loop"
  /\ UNCHANGED <<g, pathVars, exceptDominators>>

PostDominatorsNode ==
  /\ pc = "pdom_loop"
  /\ domPass.todo # <<>>
  /\ LET r == domNode(domPass, dominators, goal, From(g, Head(domPass.todo))) IN
       /\ domPass' = r.pass
       /\ dominators' = r.doms
  /\ UNCHANGED <<g, pc, pathVars, exceptDominators>>

PostDominatorsPass ==
  /\ pc = "pdom_loop"
  /\ domPass.todo = <<>>
  /\ domPass.somethingChanged
  /\ domPass' = [domPass EXCEPT !.todo = domPass.nlist, !.somethingChanged = FALSE]
  /\ UNCHANGED <<g, pc, pathVars, dominators, exceptDominators>>

PostDominatorsReturn ==
  /\ pc = "pdom_loop"
  /\ domPass.todo = <<>>
  /\ ~domPass.somethingChanged
  /\ pc' = "pdom_done"
  /\ UNCHANGED <<g, pathVars, domVars, exceptDominators>>

\* a directed graph on the nodes 1..DomNodes; the caller passes the node 1
\* as the start to Dominators or as the end to PostDominators
InitDominators ==
  /\ g \in Graphs(1..DomNodes, Slots(1..DomNodes), {1}, DomMaxEdges)
  /\ pc \in {"dom_call", "pdom_call"}
  /\ PathIdle
  /\ StructIdle

NextDominators ==
  \/ DominatorsCall
  \/ DominatorsNode
  \/ DominatorsPass
  \/ DominatorsReturn
  \/ PostDominatorsCall
  \/ PostDominatorsNode
  \/ PostDominatorsPass
  \/ PostDominatorsReturn

\* the library runs single-threaded: a call that can take a step takes it
SpecDominators == InitDominators /\ [][NextDominators]_vars /\ WF_vars(NextDominators)

\* --------------------------------------------------- claims: disjoint set
\* the members that share a set with the member a of d
SetOf(d, a) == {b \in d.master : find(d, b).p = find(d, a).p}

\* C19: after any sequence of makeSet, find and union calls, makeSet of a
\* member changes nothing, two members have the same find result if and
\* only if a chain of union calls joins them, find changes no member's set,
\* and find of a non-member returns nil.
C19_DisjointSet ==
  /\ \A n \in ds.master : makeSet(ds, n) = ds
  /\ \A a, b \in ds.master :
       find(ds, a).p = find(ds, b).p <=> (a = b \/ \E S \in dsUnions : {a, b} \subseteq S)
  /\ \A n \in 1..DIds :
       LET after == find(ds, n).ds IN
       /\ after.master = ds.master
       /\ \A a \in ds.master : SetOf(after, a) = SetOf(ds, a)
  /\ \A n \in (1..DIds) \ ds.master : find(ds, n).p = 0
  /\ dsCall.op = "find" => (dsCall.n \notin ds.master <=> dsCall.ret = 0)

\* find has returned the root of a set that two unions of equal rank built,
\* and every path of the set is compressed
C19_Witness ==
  /\ dsCall.op = "find"
  /\ dsCall.ret \in ds.master
  /\ ds.rank[dsCall.ret] = 2
  /\ Cardinality(SetOf(ds, dsCall.ret)) >= 4
  /\ \A a \in SetOf(ds, dsCall.ret) : ds.parent[a] = dsCall.ret

\* --------------------------------------------------- claims: Dominators
\* the nodes that paths from the nodes of S reach without visiting d
RECURSIVE ReachAvoiding(_, _, _)
ReachAvoiding(G, S, d) ==
  LET T == S \cup {v \in G.n \ {d} : \E u \in S : <<u, v>> \in DOMAIN G.w} IN
  IF T = S THEN S ELSE ReachAvoiding(G, T, d)

\* the nodes d that every path of G from s to n passes through
DominatorsOf(G, s, n) ==
  {d \in G.n : d = s \/ d = n \/ n \notin ReachAvoiding(G, {s}, d)}

\* f holds {s} for s and, for every other node that s reaches, the nodes
\* every path from s to it passes through
IsDominators(f, G, s) ==
  /\ DOMAIN f = G.n
  /\ f[s] = {s}
  /\ \A n \in ReachAvoiding(G, {s}, 0) : f[n] = DominatorsOf(G, s, n)

\* G with every edge reversed
Transposed(G) ==
  [n |-> G.n, w |-> [e \in {<<x[2], x[1]>> : x \in DOMAIN G.w} |-> G.w[<<e[2], e[1]>>]]]

C20_Returned ==
  /\ pc = "dom_done" => IsDominators(dominators, g, start)
  /\ pc = "pdom_done" => IsDominators(dominators, Transposed(g), goal)

\* C20: Dominators terminates and returns {start} for start and, for every
\* other node reachable from start, the nodes that every path from start to
\* it passes through; PostDominators returns the same on the graph with
\* every edge reversed and end as the start.
C20_Dominators == [](C20_Returned) /\ <>(pc \in {"dom_done", "pdom_done"})

\* Dominators has returned for a graph where a node that two edges enter
\* has a dominator besides the start and itself
C20_Witness ==
  /\ pc = "dom_done"
  /\ \E n \in ReachAvoiding(g, {start}, 0) :
       /\ Cardinality(To(g, n) \cap ReachAvoiding(g, {start}, 0)) >= 2
       /\ Cardinality(dominators[n]) >= 3

\* --------------------------------------------------- claims: BronKerbosch
IsClique(G, S) == \A u, v \in S : u # v => v \in Adj(G, u)

MaximalCliques(G) ==
  {S \in SUBSET G.n : /\ S # {}
                      /\ IsClique(G, S)
                      /\ \A v \in G.n \ S : ~IsClique(G, S \cup {v})}

\* C18: BronKerbosch returns exactly the maximal cliques of g: every list
\* returned is a clique that no further node extends, every maximal clique
\* is returned, and none is returned twice.
C18_BronKerbosch ==
  pc = "bk_done" =>
    LET clique(i) == Elems(bkArrays, bk[i]) IN
    /\ \A i \in 1..Len(bk) : /\ Range(clique(i)) \in MaximalCliques(g)
                             /\ Cardinality(Range(clique(i))) = Len(clique(i))
    /\ \A S \in MaximalCliques(g) : \E i \in 1..Len(bk) : Range(clique(i)) = S
    /\ \A i, j \in 1..Len(bk) : i # j => Range(clique(i)) # Range(clique(j))

\* ----------------------------------- claims: D* Lite, the sign of the costs
\* C15: NewDStarLite panics if an edge of the input graph has a negative
\* weight, and UpdateWorld panics if an element of changes has a negative
\* cost.
C15_NegativePanics ==
  /\ (pc # "ds_new" /\ \E e \in DOMAIN g.w : g.w[e] < 0) => panicked
  /\ (\E i \in 1..Len(dChanges) : dChanges[i].cost < 0) => panicked

\* UpdateWorld was called on a planner built from non-negative weights with
\* a negative cost after a non-negative one
C15_Witness ==
  /\ panicked
  /\ \A e \in DOMAIN g.w : g.w[e] >= 0
  /\ Len(dChanges) = 2
  /\ dChanges[1].cost >= 0
  /\ dChanges[2].cost < 0

\* C14: NewDStarLite called with h = nil completes construction, and plans
\* with the null heuristic when g has no HeuristicCost method.
C14_NilHeuristic ==
  hNil => ~panicked

\* ----------------------------------------------------- claims: D* Lite Step
\* c(u, v) of the planner: the weight of the edge in the world
WorldCost(u, v) == IF <<u, v>> \in DOMAIN world.w THEN world.w[<<u, v>>] ELSE Inf

\* what the claim says a call of Step does
StepEffect ==
  IF dS = goal \/ nd[dS].rhs >= Inf
  THEN /\ dStepped' = "false"
       /\ UNCHANGED <<dS, dLast, k_m, queue, nd>>
  ELSE /\ dStepped' = "true"
       /\ dS' \in From(world, dS)
       /\ \A x \in From(world, dS) :
            Add(WorldCost(dS, dS'), nd[dS'].g) <= Add(WorldCost(dS, x), nd[x].g)
       /\ dLast' = dS
       /\ k_m' = Add(k_m, dh[dS][dS'])
       /\ UNCHANGED <<queue, nd>>

\* C16: Step returns false and leaves s, last, k_m, the queue and every g and
\* rhs unchanged when s = t or rhs(s) = +Inf; otherwise it moves, via MoveTo,
\* to a successor s' of s that minimises c(s, s') + g(s') and returns true.
C16_Step == [][(~hNil /\ Step) => StepEffect]_vars

\* C28: once BronKerbosch has appended a clique to its result, no later step
\* changes the nodes the clique holds.
C28_CliquesKept ==
  [][\A i \in 1..Len(bk) : Elems(bkArrays', bk'[i]) = Elems(bkArrays, bk[i])]_vars

\* ------------------------------------------------------ claims: open set
\* C29: after every heap push, pop and Fix on the open set during an AStar
\* or Dijkstra run, the f-score of a slot is not greater than the f-scores
\* of its two children, indexList maps the id of the node of every slot to
\* that slot and holds no other id, no id is in two slots, and Fix on an id
\* that is not queued changes nothing.
C29_OpenSetHeap ==
  LET n == Len(openSet.nodes) IN
  /\ \A i \in 1..n : \A c \in {2 * i, 2 * i + 1} :
       c <= n => openSet.nodes[i].fscore <= openSet.nodes[c].fscore
  /\ DOMAIN openSet.indexList = {openSet.nodes[i].id : i \in 1..n}
  /\ \A i \in 1..n : openSet.indexList[openSet.nodes[i].id] = i
  /\ \A i, j \in 1..n : i # j => openSet.nodes[i].id # openSet.nodes[j].id
  /\ \A id \in Nodes \ DOMAIN openSet.indexList : \A sc \in 0..MaxWeight :
       Fix(openSet, id, sc, sc) = openSet

\* AStar has three nodes queued whose f-scores differ
C29_Witness ==
  /\ pc = "a_loop"
  /\ Len(openSet.nodes) >= 3
  /\ \E i, j \in 1..Len(openSet.nodes) : openSet.nodes[i].fscore < openSet.nodes[j].fscore

\* ------------------------------------------------- claims: Dijkstra's pops
\* C26: during a Dijkstra run with non-negative weights the costs of the
\* nodes popped never decrease from one pop to the next, no node is popped
\* twice, and the cost of a node that was popped never changes.
C26_DijkstraPops ==
  [][/\ DijkstraPop(g) =>
          /\ curr'.id \notin nodeIDMap
          /\ curr'.gscore = costs[curr'.id]
          /\ curr # NoNode => costs[curr.id] <= costs[curr'.id]
      /\ \A n \in nodeIDMap : n \in DOMAIN costs' /\ costs'[n] = costs[n]]_vars

\* three nodes were popped, not all at the same cost, and the cost of a node
\* is lower than the weight of the edge that first reached it
C26_Witness ==
  /\ pc = "d_done"
  /\ Cardinality(nodeIDMap) >= 3
  /\ \E a, b \in nodeIDMap : costs[a] < costs[b]
  /\ \E e \in DOMAIN g.w : e[1] = start /\ costs[e[2]] < g.w[e]

\* --------------------------------------------- claims: D* Lite edge costs
\* C22: once UpdateWorld has set an edge to a cost, the cost the planner
\* reads for that edge (in the rhs recomputation, in Step and in Path, and as
\* the old cost of the next change) is the cost the world holds for it.
C22_CostsRead ==
  (dChanges # <<>> /\ ~panicked) =>
    \A i \in 1..Len(dChanges) :
      LET e == dChanges[i] IN
      world.w[<<e.u, e.v>>] = e.cost => DWeight(e.u, e.v) = e.cost

\* ------------------------------------------------ claims: D* Lite panics
\* C23: on a planner built with non-negative weights and a heuristic that
\* is not nil, no Step, MoveTo, UpdateWorld (with non-negative costs) or
\* Path call panics.
C23_NoPanic == ~hNil => ~panicked

\* ------------------------------------------------- claims: D* Lite queue
\* C24: insert(u, k) leaves u queued with the stored key k, update(id, k)
\* leaves the stored key of the node k, and the top of the queue is a member
\* whose stored key is not greater than the key of any other member.
C24_QueueKeys ==
  [][/\ (NewDStarLite /\ ~panicked') =>
         /\ goal \in DOMAIN queue'.indexOf
         /\ nd'[goal].key = <<dh[start][goal], 0>>
     /\ \A u \in DOMAIN queue.indexOf :
          queueUpdate(Planner, u, keyFor(Planner, u)).nd[u].key = keyFor(Planner, u)
     /\ \A u \in DOMAIN queue.indexOf : ~KeyLess(nd[u].key, nd[top(Planner)].key)]_vars

\* C25: after NewDStarLite and after every completed UpdateWorld, Step and
\* MoveTo call, a node is in the queue if and only if its g differs from its
\* rhs, no node is in the queue twice, indexOf maps the id of every queued
\* node to its slot, and rhs of the goal is 0.
C25_QueueConsistency ==
  pc = "ds_idle" =>
    /\ \A u \in DOMAIN nd : u \in DOMAIN queue.indexOf <=> nd[u].g # nd[u].rhs
    /\ \A i, j \in 1..Len(queue.nodes) : i # j => queue.nodes[i] # queue.nodes[j]
    /\ DOMAIN queue.indexOf = Range(queue.nodes)
    /\ \A i \in 1..Len(queue.nodes) : queue.indexOf[queue.nodes[i]] = i
    /\ nd[goal].rhs = 0

\* UpdateWorld has completed with a node left in the queue, and the start
\* is consistent at a finite g
C25_Witness ==
  /\ pc = "ds_idle"
  /\ dChanges # <<>>
  /\ queue.nodes # <<>>
  /\ nd[start].g < Inf
  /\ nd[start].g = nd[start].rhs

\* ------------------------------------------ claims: D* Lite Step to goal
\* C27: with positive weights, a goal the start reaches and no UpdateWorld,
\* every Step call made before the goal is reached returns true and moves to
\* a node whose shortest-path cost to the goal is strictly lower, the goal is
\* reached after finitely many calls, and the call made there returns false.
C27_StepsReachGoal ==
  /\ [](/\ ~panicked
        /\ dStepped = "true" => Dist(g, dS, goal) < Dist(g, dLast, goal)
        /\ dStepped = "false" => dS = goal)
  /\ <>(dS = goal /\ dStepped = "false")

\* two Step calls have returned true and a third, at the goal, false
C27_Witness ==
  /\ dS = goal
  /\ dStepped = "false"
  /\ calls = 3
  /\ \E n \in g.n : Dist(g, n, goal) < Dist(g, start, goal) /\ 0 < Dist(g, n, goal)

\* ---------------------------------------------------- DepthFirstSearch
\* path.go 287-319. openSet is the internal.NodeStack, a sequence whose last
\* entry is the top; curr holds the popped node in its id field and nbrs
\* what is left of the range over from(curr).
\* nodes and edges of the graphs handed to DepthFirstSearch
DFSNodes == 4
DFSMaxEdges == 5

exceptDFS == <<g, start, goal, heuristic, nodesExpanded, costs, nodeIDMap, paths, aCost,
               bfVars, joVars, dsVars, stVars>>

\* path.go 294-305: a pop; a closed node is dropped, the goal ends the
\* search, any other node is closed and its successors ranged over
DFSPop ==
  /\ pc = "dfs_loop"
  /\ openSet # <<>>
  /\ LET n == openSet[Len(openSet)] IN
       /\ curr' = [NoNode EXCEPT !.id = n]
       /\ openSet' = SubSeq(openSet, 1, Len(openSet) - 1)
       /\ IF n \in closedSet
          THEN UNCHANGED <<pc, closedSet, nbrs, aPath>>
          ELSE IF n = goal
          THEN /\ aPath' = rebuildPath(predecessor, goal)
               /\ pc' = "dfs_done"
               /\ UNCHANGED <<closedSet, nbrs>>
          ELSE /\ closedSet' = closedSet \cup {n}
               /\ nbrs' \in Orders(From(g, n))
               /\ pc' = "dfs_nbr"
               /\ UNCHANGED aPath
  /\ UNCHANGED <<predecessor, exceptDFS>>

\* a loop over from(curr) that does not skip the closed neighbours
DFSNeighborAny ==
  /\ pc = "dfs_nbr"
  /\ IF nbrs = <<>>
     THEN /\ pc' = "dfs_loop"
          /\ UNCHANGED <<nbrs, predecessor, openSet>>
     ELSE /\ nbrs' = Tail(nbrs)
          /\ predecessor' = Put(predecessor, Head(nbrs), curr.id)
          /\ openSet' = Append(openSet, Head(nbrs))
          /\ UNCHANGED pc
  /\ UNCHANGED <<curr, closedSet, aPath, exceptDFS>>

\* path.go 307-314: the loop over from(curr), one neighbour a step, and
\* its end
DFSNeighbor ==
  /\ pc = "dfs_nbr"
  /\ IF nbrs = <<>>
     THEN /\ pc' = "dfs_loop"
          /\ UNCHANGED <<nbrs, predecessor, openSet>>
     ELSE /\ nbrs' = Tail(nbrs)
          /\ IF Head(nbrs) \in closedSet
             THEN UNCHANGED <<predecessor, openSet>>
             ELSE /\ predecessor' = Put(predecessor, Head(nbrs), curr.id)
                  /\ openSet' = Append(openSet, Head(nbrs))
          /\ UNCHANGED pc
  /\ UNCHANGED <<curr, closedSet, aPath, exceptDFS>>

\* path.go 294, 318: the stack is empty and nil is returned
DFSReturnNil ==
  /\ pc = "dfs_loop"
  /\ openSet = <<>>
  /\ aPath' = <<>>
  /\ pc' = "dfs_done"
  /\ UNCHANGED <<openSet, curr, closedSet, nbrs, predecessor, exceptDFS>>

\* path.go 287-293: DepthFirstSearch(start, goal, g) before its loop, for
\* every directed graph and every goal
InitDFS ==
  /\ g \in Graphs(1..DFSNodes, Slots(1..DFSNodes), {1}, DFSMaxEdges)
  /\ start = 1
  /\ goal \in g.n
  /\ pc = "dfs_loop"
  /\ openSet = <<start>>
  /\ closedSet = {}
  /\ predecessor = EmptyMap
  /\ heuristic = EmptyMap
  /\ nodesExpanded = 0
  /\ curr = NoNode
  /\ nbrs = <<>>
  /\ costs = EmptyMap
  /\ nodeIDMap = {}
  /\ paths = EmptyMap
  /\ aPath = <<>>
  /\ aCost = 0
  /\ nodes = <<>>
  /\ pass = 0
  /\ idx = 0
  /\ err = FALSE
  /\ nilMaps = FALSE
  /\ dummyGraph = [n |-> {}, w |-> EmptyMap]
  /\ jSource = 0
  /\ nodePaths = EmptyMap
  /\ nodeCosts = EmptyMap
  /\ hNil = FALSE
  /\ dh = EmptyMap
  /\ dS = 0
  /\ dLast = 0
  /\ k_m = 0
  /\ world = [n |-> {}, w |-> EmptyMap]
  /\ nd = EmptyMap
  /\ queue = [nodes |-> <<>>, indexOf |-> EmptyMap]
  /\ panicked = FALSE
  /\ calls = 0
  /\ pathP = <<>>
  /\ pathWeight = 0
  /\ pathNil = FALSE
  /\ dChanges = <<>>
  /\ dStepped = ""
  /\ StructIdle

NextDFS ==
  \/ DFSPop
  \/ DFSNeighbor
  \/ DFSReturnNil

SpecDFS == InitDFS /\ [][NextDFS]_vars

\* --------------------------------------------- claims: DepthFirstSearch
\* C21: DepthFirstSearch(start, goal, g) returns a non-empty sequence exactly
\* when g has a path from start to goal, and the sequence returned starts at
\* start, ends at goal and joins each consecutive pair by an edge of g.
C21_DepthFirstSearch ==
  pc = "dfs_done" =>
    /\ (aPath # <<>>) <=> Reachable(g, start, goal)
    /\ aPath # <<>> =>
         /\ aPath[1] = start
         /\ aPath[Len(aPath)] = goal
         /\ IsPath(aPath, g)

\* a path is returned through a node that was pushed twice: the entry left
\* on the stack is the one whose predecessor was overwritten while it waited
C21_Witness ==
  /\ pc = "dfs_done"
  /\ Len(aPath) >= 3
  /\ \E i \in 2..Len(aPath), j \in 1..Len(openSet) :
       /\ aPath[i] = openSet[j]
       /\ aPath[i] \in closedSet
       /\ aPath[i - 1] # start

\* ------------------------------- concrete.UndirectedGraph under its methods
\* dst is the graph, built by NewUndirectedGraph, and every step is one call
\* of AddNode, AddUndirectedEdge, RemoveNode or RemoveUndirectedEdge.
\* ids the calls are made with, and the weights handed to AddUndirectedEdge
UGIds == 3
UGMaxWeight == 2

exceptUGraph == <<g, pc, pathVars, tjVars, remainingNodes, primIter, dst2, kEdges, ds,
                  voVars, bkVars, djVars, domVars>>

\* mutablegr.go 96-102, for a new id and for one the graph has
UGAddNode ==
  /\ pc = "ug_call"
  /\ \E n \in 1..UGIds : dst' = UAddNode(dst, n)
  /\ UNCHANGED exceptUGraph

\* mutablegr.go 104-116, a self-loop included
UGAddUndirectedEdge ==
  /\ pc = "ug_call"
  /\ \E from \in 1..UGIds, to \in 1..UGIds, weight \in 1..UGMaxWeight :
       dst' = AddUndirectedEdge(dst, from, to, weight)
  /\ UNCHANGED exceptUGraph

\* mutablegr.go 118-132; delete on the nil map of a neighbour the graph
\* does not hold does nothing
UGRemoveNode ==
  /\ pc = "ug_call"
  /\ \E n \in 1..UGIds :
       IF ~Has(dst, n) THEN UNCHANGED dst
       ELSE dst' =
         [nodeMap |-> dst.nodeMap \ {n},
          neighbors |->
            [x \in DOMAIN dst.neighbors \ {n} |->
               IF x \in DOMAIN dst.neighbors[n] THEN Delete(dst.neighbors[x], n)
               ELSE dst.neighbors[x]],
          maxID |-> IF dst.maxID # 0 /\ n = dst.maxID THEN dst.maxID - 1 ELSE dst.maxID,
          freeMap |-> dst.freeMap \cup {n}]
  /\ UNCHANGED exceptUGraph

\* mutablegr.go 134-145
UGRemoveUndirectedEdge ==
  /\ pc = "ug_call"
  /\ \E from \in 1..UGIds, to \in 1..UGIds :
       IF ~Has(dst, from) \/ ~Has(dst, to) THEN UNCHANGED dst
       ELSE LET n1 == Put(dst.neighbors, from, Delete(dst.neighbors[from], to))
                n2 == Put(n1, to, Delete(n1[to], from))
            IN dst' = [dst EXCEPT !.neighbors = n2]
  /\ UNCHANGED exceptUGraph

\* mutablegr.go 57-66: the graph NewUndirectedGraph returns
InitUGraph ==
  /\ g = [n |-> {}, w |-> EmptyMap]
  /\ pc = "ug_call"
  /\ PathIdle
  /\ StructIdle

NextUGraph ==
  \/ UGRemoveUndirectedEdge
  \/ UGRemoveNode
  \/ UGAddNode
  \/ UGAddUndirectedEdge

SpecUGraph == InitUGraph /\ [][NextUGraph]_vars

\* --------------------------------- claims: concrete.UndirectedGraph symmetry
\* C30: after any sequence of AddNode, AddUndirectedEdge, RemoveNode and
\* RemoveUndirectedEdge, HasEdge(u, v) equals HasEdge(v, u), Weight gives the
\* same value for both orders of the endpoints (mutablegr.go 205-212, Inf
\* stands for g.absent), and every node of From(n) (154-167) is one Has holds for.
C30_Symmetric ==
  LET WeightOf(u, v) == IF HasEdge(dst, u, v) THEN dst.neighbors[u][v].weight ELSE Inf
      FromOf(n) == IF Has(dst, n) THEN DOMAIN dst.neighbors[n] ELSE {}
  IN \A u \in 1..UGIds :
       /\ \A v \in 1..UGIds :
            /\ HasEdge(dst, u, v) <=> HasEdge(dst, v, u)
            /\ WeightOf(u, v) = WeightOf(v, u)
       /\ \A v \in FromOf(u) : Has(dst, v)

====
